---- MODULE Spec2Model ----
(***************************************************************************)
(* Model of the bingbong web client: PositionManager (localStorage         *)
(* persistence), SourceOverlay (draggable session markers), the per-session *)
(* PannerNodes of AudioEngine, and the handlers that drive them.            *)
(*                                                                         *)
(* Numbers.  Normalized coordinates are JavaScript doubles in the source;  *)
(* here they are integers counting 1/Unit (Unit = 10000), so 0.5 is 5000,  *)
(* 0.05 is 500.  Audio coordinates use the same unit (5 is 50000).  Pixel   *)
(* coordinates are whole pixels.  Results of divisions are rounded to the  *)
(* nearest unit.  Time is counted in days.                                 *)
(***************************************************************************)
EXTENDS Integers, Sequences, FiniteSets, TLC

(***************************************************************************)
(* Bounds of the model                                                     *)
(***************************************************************************)
MaxElements == 3        \* marker elements created per page load
MaxTimers == 2          \* removal timers pending at the same time
MaxNow == 31            \* last day the clock reaches

(***************************************************************************)
(* Representation                                                          *)
(***************************************************************************)
Unit == 10000

NoKey == "<null>"

NULL == [null |-> TRUE]

\* animationId when no handle is held: null, which `if (this.animationId)`
\* does not tell from 0
NoFrame == 0

\* ws when it is null; sockets are numbered from 1 in creation order
NoSocket == 0

\* the gain of a node that does not exist yet
NoGain == -1

Pos(x, y) == [x |-> x, y |-> y]

Round(a, b) == (2 * a + b) \div (2 * b)

Max(a, b) == IF a >= b THEN a ELSE b

Min(a, b) == IF a <= b THEN a ELSE b

(***************************************************************************)
(* Inputs: the sessions the server reports, the days the clock may jump,   *)
(* the canvas rectangle, the pointers and the places they can be moved to. *)
(***************************************************************************)
Sessions ==
  { [machine_id |-> "m1", session_id |-> "s1", color |-> "#FF6B6B"],
    [machine_id |-> "m1", session_id |-> "s2", color |-> "#4ECDC4"] }

SessionKey(session) == session.machine_id \o ":" \o session.session_id

Keys == { SessionKey(s) : s \in Sessions }

\* a session reported without a machine_id
AnonymousSession == [machine_id |-> "", session_id |-> "s3", color |-> "#45B7D1"]

AllSessions == Sessions \cup {AnonymousSession}

\* values of the volume and reverb sliders, as fractions
Volumes == {0, Unit \div 2, Unit}

ReverbMixes == {0, Unit}

TimeSteps == {30, 31}

PointerIds == {1, 2}

\* sizes the canvas is laid out at
InitialSize == [width |-> 1000, height |-> 800]

Sizes == {InitialSize, [width |-> 600, height |-> 400]}

CanvasRect == [left |-> 10, top |-> 20, width |-> 1000, height |-> 800]

\* where a pointer may be moved to: inside the radar, and outside the canvas
InsidePoint == [clientX |-> 366, clientY |-> 636]

OutsidePoint == [clientX |-> 2000, clientY |-> -50]

DragPoints == {InsidePoint, OutsidePoint}

\* positions a previous page load may have left in localStorage
StoredPoints == { Pos(2000, 2000) }

StoredDays == {-30}

(***************************************************************************)
(* State                                                                   *)
(***************************************************************************)
VARIABLES
  now,             \* Date.now(), in days
  storage,         \* localStorage entries "bingbong:position:<key>", by key
  positions,       \* PositionManager.positions
  sources,         \* SourceOverlay.sources, in insertion order
  els,             \* the marker elements attached to the container, by id
  elCount,         \* marker elements created since page load
  selectedKey,     \* SourceOverlay.selectedKey
  dragState,       \* SourceOverlay.dragState
  sessionIndex,    \* SourceOverlay.sessionIndex
  timers,          \* pending setTimeout callbacks of removeSource, oldest first
  pressed,         \* per pointer: the element it was pressed on, 0 when up
  ctx,             \* AudioEngine.ctx is set
  sessionPanners,  \* AudioEngine.sessionPanners
  connected,       \* the WebSocket delivers messages
  audioInitFailed, \* app.ts audioInitFailed
  masterGain,      \* AudioEngine.masterGain.gain.value, NoGain before init
  reverbGain,      \* AudioEngine.reverbGain.gain.value, NoGain before init
  dryGain,         \* AudioEngine.dryGain.gain.value, NoGain before init
  muted,           \* AudioEngine.muted
  volume,          \* AudioEngine.volume
  reverbAmount,    \* AudioEngine.reverbAmount
  particles,       \* Visualizer.particles: id and remaining lifetime
  isAnimating,     \* Visualizer.isAnimating
  animationId,     \* Visualizer.animationId
  frames,          \* requestAnimationFrame callbacks not yet run or cancelled
  canvas,          \* what the last draw left on the canvas
  page,            \* the DOMContentLoaded handler: not run yet ("new"), run
                   \* to its end ("loaded"), or ended by an exception ("failed")
  emitRun,         \* the last run of `bingbong emit`: what it was given and
                   \* what it did
  cursorHooks,     \* "hooks" of ~/.cursor/hooks.json
  claudeHooks,     \* "hooks" of ~/.claude/settings.json
  ws,              \* app.ts ws: the socket it refers to, NoSocket when null
  sockets,         \* readyState of every WebSocket the page has created
  btnDisabled,     \* the connect button is disabled
  deliveries,      \* how often the client handled the last broadcast event
  registry,        \* server.ts sessions: session index by key
  sessionCounter,  \* server.ts sessionCounter
  broadcasts,      \* events the server has broadcast
  response,        \* status of the last response to POST /events
  resizeTimeout,   \* Visualizer.resizeTimeout is set
  resizeTimers,    \* pending setTimeout callbacks of throttledResize
  rect,            \* size of canvas.getBoundingClientRect()
  size,            \* Visualizer.width and height
  saved            \* history: per key, the arguments and day of the last
                   \* savePosition call since the last clearAll

vars == <<now, storage, positions, sources, els, elCount, selectedKey, dragState,
          sessionIndex, timers, pressed, ctx, sessionPanners, connected,
          audioInitFailed, masterGain, reverbGain, dryGain, muted, volume,
          reverbAmount, particles, isAnimating, animationId, frames, canvas,
          page, emitRun, cursorHooks, claudeHooks, ws, sockets, btnDisabled,
          deliveries, registry, sessionCounter, broadcasts, response,
          resizeTimeout, resizeTimers, rect, size, saved>>

pmVars == <<storage, positions, saved>>

overlayVars == <<sources, els, elCount, selectedKey, dragState, sessionIndex>>

audioVars == <<ctx, sessionPanners>>

busVars == <<masterGain, reverbGain, dryGain, muted, volume, reverbAmount>>

vizVars == <<particles, isAnimating, animationId, frames, canvas>>

\* the listeners of the page are registered
loaded == page = "loaded"

\* the command line: emit and install-hooks
cliVars == <<emitRun, cursorHooks, claudeHooks>>

\* everything the page holds; the command line touches none of it
clientVars ==
  <<now, timers, pressed, connected, audioInitFailed, pmVars, overlayVars,
    audioVars, busVars, vizVars, page>>

\* the connection: app.ts ws, the sockets and the connect button
netVars == <<ws, sockets, btnDisabled, deliveries>>

\* the server
serverVars == <<registry, sessionCounter, broadcasts, response>>

\* the size of the drawing surface
sizeVars == <<resizeTimeout, resizeTimers, rect, size>>


(***************************************************************************)
(* PositionManager                                                         *)
(***************************************************************************)
RetentionDays == 30

\* JSON.stringify of the record savePosition builds: an object of three
\* members.  The tag is what JSON.parse has to recognise again.
Stringify(data) ==
  [json |-> "object", x |-> data.x, y |-> data.y, savedAt |-> data.savedAt]

\* JSON.parse of a stored value: the text "null" gives null
Parse(value) ==
  IF value.json = "null" THEN NULL
  ELSE [x |-> value.x, y |-> value.y, savedAt |-> value.savedAt]

\* JSON.parse does not throw
Parses(value) == value.json \in {"object", "null"}

\* loadFromStorage: every entry under the prefix that parses goes to the map
loadFromStorage(store) ==
  [k \in {q \in DOMAIN store : Parses(store[q])} |-> Parse(store[k])]

\* variant: a record exactly 30 days old counts as stale
IsStaleAtLimit(data, today) == data.savedAt <= today - RetentionDays

IsStale(data, today) == data.savedAt < today - RetentionDays

\* cleanupStale, on the map and on localStorage
cleanupStaleMap(map, today) ==
  [k \in {q \in DOMAIN map : ~IsStale(map[q], today)} |-> map[k]]

cleanupStaleStorage(store, map, today) ==
  [k \in {q \in DOMAIN store : ~(q \in DOMAIN map /\ IsStale(map[q], today))}
     |-> store[k]]

\* cleanupStale throws on data.savedAt when an entry of the map is null
ConstructThrows(store) ==
  \E k \in DOMAIN loadFromStorage(store) : loadFromStorage(store)[k] = NULL

\* new PositionManager(): the map and localStorage after the constructor
ConstructMap(store, today) == cleanupStaleMap(loadFromStorage(store), today)

ConstructStorage(store, today) ==
  cleanupStaleStorage(store, loadFromStorage(store), today)

Put(map, k, v) == [q \in DOMAIN map \cup {k} |-> IF q = k THEN v ELSE map[q]]

Drop(map, ks) == [q \in DOMAIN map \ ks |-> map[q]]

\* localStorage after a constructor that threw: the stale entries the loop
\* came to before the null entry are removed, and the order of the loop is
\* that of localStorage.key(i), which is not specified
AbortedCleanups(store, today) ==
  { Drop(store, ks) :
      ks \in SUBSET { k \in DOMAIN loadFromStorage(store) :
                        /\ loadFromStorage(store)[k] # NULL
                        /\ IsStale(loadFromStorage(store)[k], today) } }

savePositionMap(map, sessionKey, x, y, today) ==
  Put(map, sessionKey, [x |-> x, y |-> y, savedAt |-> today])

savePositionStorage(store, sessionKey, x, y, today) ==
  Put(store, sessionKey, Stringify([x |-> x, y |-> y, savedAt |-> today]))

\* cos and sin of index * 137.5 degrees, in 1/Unit, for index 1..9
CosTable == <<-7373, 872, 6088, -9848, 8434, -2588, -4617, 9397, -9239>>

SinTable == <<6756, -9962, 7934, -1736, -5373, 9659, -8870, 3420, 3827>>

CeilSqrt(n) == CHOOSE r \in 0..n : r * r >= n /\ (r = 0 \/ (r - 1) * (r - 1) < n)

\* variant: the coordinates are not clamped
autoAssignUnclamped(index) ==
  IF index = 0 THEN Pos(Unit \div 2, Unit \div 2)
  ELSE LET ring == CeilSqrt(index)
           radius == (15 * Unit) \div 100 + ring * (Unit \div 10)
       IN Pos(Unit \div 2 + Round(CosTable[index] * radius, Unit),
              Unit \div 2 + Round(SinTable[index] * radius, Unit))

autoAssign(index) ==
  IF index = 0 THEN Pos(Unit \div 2, Unit \div 2)
  ELSE LET ring == CeilSqrt(index)
           radius == (15 * Unit) \div 100 + ring * (Unit \div 10)
       IN Pos(Max(Unit \div 10, Min((9 * Unit) \div 10,
                  Unit \div 2 + Round(CosTable[index] * radius, Unit))),
              Max(Unit \div 10, Min((9 * Unit) \div 10,
                  Unit \div 2 + Round(SinTable[index] * radius, Unit))))

\* variant: the saved position is not looked up
getPositionUnsaved(map, sessionKey, index) == autoAssign(index)

getPosition(map, sessionKey, index) ==
  IF sessionKey \in DOMAIN map
    THEN Pos(map[sessionKey].x, map[sessionKey].y)
    ELSE autoAssign(index)

\* clearAll removes the localStorage entry of every key of the map
clearAllStorage(store, map) == Drop(store, DOMAIN map)

(***************************************************************************)
(* AudioEngine: the per-session panners                                    *)
(***************************************************************************)
\* a PannerNode as createPanner() returns it: at the origin
NewPanner == [x |-> 0, y |-> 0, z |-> 0]

\* variant: a panner is built on every call
createPannerForSessionAnew(panners, sessionKey) ==
  IF ~ctx THEN panners
  ELSE Put(panners, sessionKey, NewPanner)

createPannerForSession(panners, sessionKey) ==
  IF ~ctx THEN panners
  ELSE IF sessionKey \in DOMAIN panners THEN panners
  ELSE Put(panners, sessionKey, NewPanner)

\* variant: front and back are not inverted
PannerAtUpright(normX, normY) ==
  [x |-> (normX - Unit \div 2) * 10, y |-> 0, z |-> (normY - Unit \div 2) * 10]

\* normalized (0..1) to 3D space (-5..+5), y inverted
PannerAt(normX, normY) ==
  [x |-> (normX - Unit \div 2) * 10, y |-> 0, z |-> (Unit \div 2 - normY) * 10]

\* variant: the panner is left where it is
updatePannerPositionSkipped(panners, sessionKey, normX, normY) == panners

updatePannerPosition(panners, sessionKey, normX, normY) ==
  IF sessionKey \notin DOMAIN panners \/ ~ctx THEN panners
  ELSE [panners EXCEPT ![sessionKey] = PannerAt(normX, normY)]

removePannerForSession(panners, sessionKey) == Drop(panners, {sessionKey})

(***************************************************************************)
(* SourceOverlay                                                           *)
(***************************************************************************)
SourceIndex(srcs, key) ==
  IF \E i \in 1..Len(srcs) : srcs[i].key = key
    THEN CHOOSE i \in 1..Len(srcs) : srcs[i].key = key
    ELSE 0

HasSource(srcs, key) == SourceIndex(srcs, key) # 0

GetSource(srcs, key) == srcs[SourceIndex(srcs, key)]

\* Map.delete: the entry goes, the others keep their order
DeleteSource(srcs, key) == SelectSeq(srcs, LAMBDA e : e.key # key)

\* the geometry both setElementPosition and onPointerMove compute
RadarSize == Min(CanvasRect.width, CanvasRect.height)

MaxRadius == (RadarSize * 45) \div 100

CenterX == CanvasRect.width \div 2

CenterY == CanvasRect.height \div 2

\* setElementPosition: normalized to pixels (style.left, style.top)
PixelAt(normX, normY) ==
  [left |-> CenterX + Round((normX - Unit \div 2) * 2 * MaxRadius, Unit),
   top |-> CenterY + Round((normY - Unit \div 2) * 2 * MaxRadius, Unit)]

\* onPointerMove: client coordinates to normalized, clamped
\* variant: the pointer position is taken as it is
ClampNone(norm) == norm

Clamp(norm) == Max((5 * Unit) \div 100, Min((95 * Unit) \div 100, norm))

NormAt(point) ==
  LET canvasX == point.clientX - CanvasRect.left
      canvasY == point.clientY - CanvasRect.top
  IN Pos(Clamp(Unit \div 2 + Round((canvasX - CenterX) * Unit, 2 * MaxRadius)),
         Clamp(Unit \div 2 + Round((canvasY - CenterY) * Unit, 2 * MaxRadius)))

\* The state createSource reads and writes, as one value, so that a
\* snapshot can apply it entry after entry.
Overlay(srcs, elements, count, index, panners) ==
  [sources |-> srcs, els |-> elements, elCount |-> count,
   sessionIndex |-> index, sessionPanners |-> panners]

\* the element of a marker; `index` is history: the fallback index the
\* marker was last given, by createSource or by resetLayout
NewElement(session, pos, index) ==
  [key |-> SessionKey(session), color |-> session.color, index |-> index,
   dragging |-> FALSE, selected |-> FALSE, disconnected |-> FALSE,
   left |-> PixelAt(pos.x, pos.y).left, top |-> PixelAt(pos.x, pos.y).top]

\* variant: a create for a key whose marker is fading out revives the marker
createSourceRevive(S, map, session) ==
  LET key == SessionKey(session)
      index == S.sessionIndex
      pos == getPosition(map, key, index)
      el == S.elCount + 1
  IN IF HasSource(S.sources, key)
       THEN [S EXCEPT !.els[GetSource(S.sources, key).el].disconnected = FALSE]
     ELSE Overlay(Append(S.sources, [key |-> key, el |-> el, pos |-> pos]),
                  Put(S.els, el, NewElement(session, pos, index)),
                  el,
                  index + 1,
                  updatePannerPosition(
                    createPannerForSession(S.sessionPanners, key),
                    key, pos.x, pos.y))

\* variant: a create for a key that has a marker still takes a fallback index
createSourceCounting(S, map, session) ==
  LET key == SessionKey(session)
      index == S.sessionIndex
      pos == getPosition(map, key, index)
      el == S.elCount + 1
  IN IF HasSource(S.sources, key)
       THEN [S EXCEPT !.sessionIndex = index + 1]
     ELSE Overlay(Append(S.sources, [key |-> key, el |-> el, pos |-> pos]),
                  Put(S.els, el, NewElement(session, pos, index)),
                  el,
                  index + 1,
                  updatePannerPosition(
                    createPannerForSession(S.sessionPanners, key),
                    key, pos.x, pos.y))

createSource(S, map, session) ==
  LET key == SessionKey(session)
      index == S.sessionIndex
      pos == getPosition(map, key, index)
      el == S.elCount + 1
  IN IF HasSource(S.sources, key) THEN S
     ELSE Overlay(Append(S.sources, [key |-> key, el |-> el, pos |-> pos]),
                  Put(S.els, el, NewElement(session, pos, index)),
                  el,
                  index + 1,
                  updatePannerPosition(
                    createPannerForSession(S.sessionPanners, key),
                    key, pos.x, pos.y))

\* marker elements createSource would have to create for this session
Creates(srcs, session) == IF HasSource(srcs, SessionKey(session)) THEN 0 ELSE 1

\* select / deselect: selectedKey and the 'selected' class of the elements
deselectEls(srcs, elements, selKey) ==
  IF selKey # NoKey /\ HasSource(srcs, selKey)
    THEN [elements EXCEPT ![GetSource(srcs, selKey).el].selected = FALSE]
    ELSE elements

selectEls(srcs, elements, selKey, key) ==
  LET cleared == deselectEls(srcs, elements, selKey)
  IN IF HasSource(srcs, key)
       THEN [cleared EXCEPT ![GetSource(srcs, key).el].selected = TRUE]
       ELSE cleared

\* no emit has run and both hooks files are without hooks
NoCli ==
  /\ emitRun = NULL
  /\ cursorHooks = << >>
  /\ claudeHooks = << >>

\* `let ws = null`, no socket created, the button as the page has it
NoNet ==
  /\ ws = NoSocket
  /\ sockets = << >>
  /\ btnDisabled = FALSE
  /\ deliveries = 0

\* the server has started: no session, sessionCounter = 0
NoServer ==
  /\ registry = << >>
  /\ sessionCounter = 0
  /\ broadcasts = << >>
  /\ response = "none"

\* the Visualizer's constructor has run resize()
NoResize ==
  /\ resizeTimeout = FALSE
  /\ resizeTimers = 0
  /\ rect = InitialSize
  /\ size = InitialSize

(***************************************************************************)
(* Initial state: the page has loaded (DOMContentLoaded has run) over a    *)
(* localStorage that earlier page loads may have written.                  *)
(***************************************************************************)
DefaultVolume == (7 * Unit) \div 10

DefaultReverb == (3 * Unit) \div 10

StoredValues ==
  { Stringify([x |-> p.x, y |-> p.y, savedAt |-> d]) :
      p \in StoredPoints, d \in StoredDays }

InitialStorages == UNION { [ks -> StoredValues] : ks \in SUBSET Keys }

Init ==
  /\ now = 0
  /\ \E raw \in InitialStorages :
       /\ storage = ConstructStorage(raw, 0)
       /\ positions = ConstructMap(raw, 0)
       /\ saved = [k \in DOMAIN raw |->
                    [x |-> raw[k].x, y |-> raw[k].y, savedAt |-> raw[k].savedAt]]
  /\ sources = <<>>
  /\ els = <<>>
  /\ elCount = 0
  /\ selectedKey = NoKey
  /\ dragState = NULL
  /\ sessionIndex = 0
  /\ timers = <<>>
  /\ pressed = [p \in PointerIds |-> 0]
  /\ ctx = FALSE
  /\ sessionPanners = <<>>
  /\ connected = FALSE
  /\ audioInitFailed = FALSE
  /\ masterGain = NoGain
  /\ reverbGain = NoGain
  /\ dryGain = NoGain
  /\ muted = FALSE
  /\ volume = DefaultVolume
  /\ particles = <<>>
  /\ isAnimating = FALSE
  /\ animationId = NoFrame
  /\ frames = {}
  /\ canvas = "static"
  /\ page = "loaded"
  /\ NoCli
  /\ NoNet
  /\ NoServer
  /\ NoResize
  /\ reverbAmount = DefaultReverb

(***************************************************************************)
(* Connection and audio initialisation                                     *)
(***************************************************************************)
\* AudioEngine.init(): returns at once when ctx is set; otherwise
\* variant: the bus is built on every call
initAnew(audioOk) ==
  IF ~audioOk
    THEN UNCHANGED <<ctx, masterGain, reverbGain, dryGain>>
    ELSE /\ ctx' = TRUE
         /\ masterGain' = volume
         /\ reverbGain' = reverbAmount
         /\ dryGain' = Unit - reverbAmount

\* new AudioContext() either throws (audioOk is FALSE), leaving the engine
\* as it was, or the bus is built with the current volume and reverb amount
init(audioOk) ==
  IF ctx \/ ~audioOk
    THEN UNCHANGED <<ctx, masterGain, reverbGain, dryGain>>
    ELSE /\ ctx' = TRUE
         /\ masterGain' = volume
         /\ reverbGain' = reverbAmount
         /\ dryGain' = Unit - reverbAmount

\* init() throws
initThrows(audioOk) == ~ctx /\ ~audioOk

\* connect(): await audioEngine.init(), whose exception is caught and noted
\* in audioInitFailed, then the socket is opened.
\* variant: a failed audio initialisation aborts the connection attempt
ConnectNeedsAudio(audioOk) ==
  /\ loaded
  /\ ~connected
  /\ init(audioOk)
  /\ audioInitFailed' = initThrows(audioOk)
  /\ connected' = ~initThrows(audioOk)
  /\ UNCHANGED <<now, pmVars, overlayVars, timers, pressed, sessionPanners,
                 muted, volume, reverbAmount, vizVars, page, cliVars, netVars, serverVars, sizeVars>>

Connect(audioOk) ==
  /\ loaded
  /\ ~connected
  /\ init(audioOk)
  /\ audioInitFailed' = initThrows(audioOk)
  /\ connected' = TRUE
  /\ UNCHANGED <<now, pmVars, overlayVars, timers, pressed, sessionPanners,
                 muted, volume, reverbAmount, vizVars, page, cliVars, netVars, serverVars, sizeVars>>

\* the volume slider: setVolume(value)
SetVolume(value) ==
  /\ loaded
  /\ volume' = value
  /\ masterGain' = (IF masterGain = NoGain THEN NoGain
                    ELSE IF muted THEN 0 ELSE value)
  /\ UNCHANGED <<now, pmVars, overlayVars, timers, pressed, audioVars,
                 connected, audioInitFailed, reverbGain, dryGain, muted,
                 reverbAmount, vizVars, page, cliVars, netVars, serverVars, sizeVars>>

\* the reverb slider: setReverb(value)
SetReverb(value) ==
  /\ loaded
  /\ reverbAmount' = value
  /\ IF reverbGain # NoGain /\ dryGain # NoGain
       THEN /\ reverbGain' = value
            /\ dryGain' = Unit - value \div 2
       ELSE UNCHANGED <<reverbGain, dryGain>>
  /\ UNCHANGED <<now, pmVars, overlayVars, timers, pressed, audioVars,
                 connected, audioInitFailed, masterGain, muted, volume,
                 vizVars, page, cliVars, netVars, serverVars, sizeVars>>

\* toggleMute()
ToggleMute ==
  /\ loaded
  /\ muted' = ~muted
  /\ masterGain' = (IF masterGain = NoGain THEN NoGain
                    ELSE IF ~muted THEN 0 ELSE volume)
  /\ UNCHANGED <<now, pmVars, overlayVars, timers, pressed, audioVars,
                 connected, audioInitFailed, reverbGain, dryGain, volume,
                 reverbAmount, vizVars, page, cliVars, netVars, serverVars, sizeVars>>

Disconnect ==
  /\ connected
  /\ connected' = FALSE
  /\ UNCHANGED <<now, pmVars, overlayVars, timers, pressed, audioVars>>
  /\ UNCHANGED <<audioInitFailed, busVars, vizVars, page, cliVars, netVars, serverVars, sizeVars>>

(***************************************************************************)
(* The connection in detail: the click handler of the connect button and   *)
(* the callbacks of every socket connect() has created.  A socket keeps    *)
(* its callbacks after app.ts has let go of it.                            *)
(***************************************************************************)
\* sockets created per page load
MaxSockets == 3

\* the sockets that deliver messages
OpenSockets(ss) == {s \in DOMAIN ss : ss[s] = "open"}

\* the sockets that are open or connecting
LiveSockets(ss) == {s \in DOMAIN ss : ss[s] \in {"connecting", "open"}}

\* the click handler: disconnect() when ws is set and OPEN, else connect().
\* disconnect() closes the socket and forgets it; connect() disables the
\* button, awaits init() and creates a socket, all before any callback
\* of a socket can run.
ClickConnect(audioOk) ==
  /\ loaded
  /\ ~btnDisabled
  /\ IF ws # NoSocket /\ sockets[ws] = "open"
       THEN /\ sockets' = [sockets EXCEPT ![ws] = "closing"]
            /\ ws' = NoSocket
            /\ connected' = (OpenSockets(sockets') # {})
            /\ UNCHANGED <<btnDisabled, ctx, masterGain, reverbGain, dryGain,
                           audioInitFailed>>
       ELSE /\ Len(sockets) < MaxSockets
            /\ btnDisabled' = TRUE
            /\ init(audioOk)
            /\ audioInitFailed' = initThrows(audioOk)
            /\ sockets' = Append(sockets, "connecting")
            /\ ws' = Len(sockets) + 1
            /\ UNCHANGED connected
  /\ UNCHANGED <<now, pmVars, overlayVars, timers, pressed, sessionPanners,
                 muted, volume, reverbAmount, vizVars, page, cliVars,
                 deliveries, serverVars, sizeVars>>

\* ws.onopen of socket s
SocketOpen(s) ==
  /\ s \in DOMAIN sockets
  /\ sockets[s] = "connecting"
  /\ sockets' = [sockets EXCEPT ![s] = "open"]
  /\ btnDisabled' = FALSE
  /\ connected' = TRUE
  /\ UNCHANGED <<now, pmVars, overlayVars, timers, pressed, audioVars,
                 audioInitFailed, busVars, vizVars, page, cliVars, ws,
                 deliveries, serverVars, sizeVars>>

\* the connection of socket s cannot be established: ws.onerror, then
\* ws.onclose, of socket s
SocketFail(s) ==
  /\ s \in DOMAIN sockets
  /\ sockets[s] = "connecting"
  /\ sockets' = [sockets EXCEPT ![s] = "closed"]
  /\ btnDisabled' = FALSE
  /\ ws' = NoSocket
  /\ UNCHANGED <<now, pmVars, overlayVars, timers, pressed, audioVars,
                 connected, audioInitFailed, busVars, vizVars, page, cliVars,
                 deliveries, serverVars, sizeVars>>

\* ws.onclose of socket s: the close it asked for has completed, or the
\* server has closed the connection
SocketClose(s) ==
  /\ s \in DOMAIN sockets
  /\ sockets[s] \in {"open", "closing"}
  /\ sockets' = [sockets EXCEPT ![s] = "closed"]
  /\ btnDisabled' = FALSE
  /\ ws' = NoSocket
  /\ connected' = (OpenSockets(sockets') # {})
  /\ UNCHANGED <<now, pmVars, overlayVars, timers, pressed, audioVars,
                 audioInitFailed, busVars, vizVars, page, cliVars,
                 deliveries, serverVars, sizeVars>>

(***************************************************************************)
(* Inbound messages                                                        *)
(***************************************************************************)
SetOverlay(S) ==
  /\ sources' = S.sources
  /\ els' = S.els
  /\ elCount' = S.elCount
  /\ sessionIndex' = S.sessionIndex
  /\ sessionPanners' = S.sessionPanners

CurrentOverlay ==
  Overlay(sources, els, elCount, sessionIndex, sessionPanners)

\* playSound: nothing without a context or when muted; through the
\* session's panner if it has one, else through a new stereo panner
playSound(panners, sessionKey) ==
  IF ~ctx \/ muted THEN "none"
  ELSE IF sessionKey # NoKey /\ sessionKey \in DOMAIN panners THEN "session"
  ELSE "stereo"

\* Visualizer.addEvent: where the particle is spawned
addEvent(srcs, sessionKey) ==
  IF sessionKey # NoKey /\ HasSource(srcs, sessionKey)
    THEN LET pos == GetSource(srcs, sessionKey).pos
         IN [x |-> CenterX + Round((pos.x - Unit \div 2) * 2 * MaxRadius, Unit),
             y |-> CenterY + Round((pos.y - Unit \div 2) * 2 * MaxRadius, Unit)]
    ELSE [x |-> CenterX, y |-> CenterY]

\* the session key handleEvent computes: null unless both fields are set
EventKey(event) ==
  IF event.machine_id # "" /\ event.session_id # ""
    THEN SessionKey(event) ELSE NoKey

\* variant: the sound is played and the particle spawned before the marker
\* is created
handleEventSoundFirst(S, map, event) ==
  LET sessionKey == EventKey(event)
      overlay == IF event.session_id # "" /\ sessionKey # NoKey
                   THEN createSource(S, map, event) ELSE S
  IN [overlay |-> overlay,
      session |-> event.session_id,
      sound |-> playSound(S.sessionPanners, sessionKey),
      particle |-> addEvent(S.sources, sessionKey)]

\* handleEvent, in the order of its statements: session tracking and
\* createSource, then playEvent, then addEvent.  The overlay is the state
\* it leaves; the tracked session, the route of the sound and the place of
\* the particle are what it hands to the session list, the audio engine
\* and the visualizer.
handleEvent(S, map, event) ==
  LET sessionKey == EventKey(event)
      overlay == IF event.session_id # "" /\ sessionKey # NoKey
                   THEN createSource(S, map, event) ELSE S
  IN [overlay |-> overlay,
      session |-> event.session_id,
      sound |-> playSound(overlay.sessionPanners, sessionKey),
      particle |-> addEvent(overlay.sources, sessionKey)]

\* variant: the position a new marker gets is saved
HandleEventSaving(event) ==
  /\ connected
  /\ handleEvent(CurrentOverlay, positions, event).overlay.elCount <= MaxElements
  /\ SetOverlay(handleEvent(CurrentOverlay, positions, event).overlay)
  /\ LET k == SessionKey(event)
         pos == getPosition(positions, k, sessionIndex)
     IN /\ positions' = savePositionMap(positions, k, pos.x, pos.y, now)
        /\ storage' = savePositionStorage(storage, k, pos.x, pos.y, now)
        /\ saved' = saved
  /\ UNCHANGED <<now, selectedKey, dragState, timers, pressed, ctx, connected>>
  /\ UNCHANGED <<audioInitFailed, busVars, vizVars, page, cliVars, netVars, serverVars, sizeVars>>

HandleEvent(event) ==
  /\ connected
  /\ handleEvent(CurrentOverlay, positions, event).overlay.elCount <= MaxElements
  /\ SetOverlay(handleEvent(CurrentOverlay, positions, event).overlay)
  /\ UNCHANGED <<now, pmVars, selectedKey, dragState, timers, pressed, ctx,
                 connected>>
  /\ UNCHANGED <<audioInitFailed, busVars, vizVars, page, cliVars, netVars, serverVars, sizeVars>>

\* ws.onmessage of each of n sockets, one after the other, for one event
RECURSIVE onMessages(_, _, _, _)
onMessages(S, map, event, n) ==
  IF n = 0 THEN S
  ELSE onMessages(handleEvent(S, map, event).overlay, map, event, n - 1)

\* the server sends one event to every client socket: the onmessage
\* callback of every open socket of the page runs handleEvent
Broadcast(event) ==
  /\ OpenSockets(sockets) # {}
  /\ LET n == Cardinality(OpenSockets(sockets))
         after == onMessages(CurrentOverlay, positions, event, n)
     IN /\ after.elCount <= MaxElements
        /\ SetOverlay(after)
        /\ deliveries' = n
  /\ UNCHANGED <<now, pmVars, selectedKey, dragState, timers, pressed, ctx,
                 connected, audioInitFailed, busVars, vizVars, page, cliVars,
                 ws, sockets, btnDisabled, serverVars, sizeVars>>

\* data.sessions.forEach(createSource)
RECURSIVE createSources(_, _, _)
createSources(S, map, list) ==
  IF list = <<>> THEN S
  ELSE createSources(createSource(S, map, Head(list)), map, Tail(list))

SnapshotLists ==
  { list \in UNION { [1..n -> Sessions] : n \in 1..Cardinality(Sessions) } :
      \A i, j \in DOMAIN list : i # j => list[i] # list[j] }

\* snapshots that may hold a session without a machine_id
AllSnapshotLists ==
  { list \in UNION { [1..n -> AllSessions] : n \in 1..Cardinality(AllSessions) } :
      \A i, j \in DOMAIN list : i # j => list[i] # list[j] }

HandleInit(list) ==
  /\ connected
  /\ createSources(CurrentOverlay, positions, list).elCount <= MaxElements
  /\ SetOverlay(createSources(CurrentOverlay, positions, list))
  /\ UNCHANGED <<now, pmVars, selectedKey, dragState, timers, pressed, ctx,
                 connected>>
  /\ UNCHANGED <<audioInitFailed, busVars, vizVars, page, cliVars, netVars, serverVars, sizeVars>>

(***************************************************************************)
(* Removal                                                                 *)
(***************************************************************************)
removeSource(key) ==
  IF ~HasSource(sources, key)
    THEN UNCHANGED <<els, timers, selectedKey>>
    ELSE LET source == GetSource(sources, key)
         IN /\ els' = [els EXCEPT ![source.el].disconnected = TRUE]
            /\ timers' = Append(timers, [key |-> key, el |-> source.el])
            /\ selectedKey' = IF selectedKey = key THEN NoKey ELSE selectedKey

RemoveSource(key) ==
  /\ HasSource(sources, key) => Len(timers) < MaxTimers
  /\ removeSource(key)
  /\ UNCHANGED <<now, pmVars, sources, elCount, dragState, sessionIndex,
                 pressed, audioVars, connected>>
  /\ UNCHANGED <<audioInitFailed, busVars, vizVars, page, cliVars, netVars, serverVars, sizeVars>>

\* the callback removeSource gave to setTimeout, 1000 ms later; equal delays
\* expire in the order they were set
TimerFire ==
  /\ timers # <<>>
  /\ LET t == Head(timers)
     IN /\ els' = Drop(els, {t.el})
        /\ sources' = DeleteSource(sources, t.key)
        /\ sessionPanners' = removePannerForSession(sessionPanners, t.key)
  /\ timers' = Tail(timers)
  /\ UNCHANGED <<now, pmVars, elCount, selectedKey, dragState, sessionIndex,
                 pressed, ctx, connected>>
  /\ UNCHANGED <<audioInitFailed, busVars, vizVars, page, cliVars, netVars, serverVars, sizeVars>>

(***************************************************************************)
(* Pointer input                                                           *)
(***************************************************************************)
\* onPointerDown(e, key): the listener createSource put on the element,
\* with the key it closed over
onPointerDown(pointerId, key) ==
  IF ~HasSource(sources, key)
    THEN UNCHANGED <<els, selectedKey, dragState>>
    ELSE LET source == GetSource(sources, key)
             chosen == selectEls(sources, els, selectedKey, key)
         IN /\ selectedKey' = key
            /\ els' = [chosen EXCEPT ![source.el].dragging = TRUE]
            /\ dragState' = [key |-> key, pointerId |-> pointerId,
                             startPos |-> source.pos]

PointerDown(pointerId, el) ==
  /\ pressed[pointerId] = 0
  /\ el \in DOMAIN els
  /\ onPointerDown(pointerId, els[el].key)
  /\ pressed' = [pressed EXCEPT ![pointerId] = el]
  /\ UNCHANGED <<now, pmVars, sources, elCount, sessionIndex, timers,
                 audioVars, connected>>
  /\ UNCHANGED <<audioInitFailed, busVars, vizVars, page, cliVars, netVars, serverVars, sizeVars>>

\* onPointerMove(e): the document-level listener
onPointerMove(point) ==
  IF dragState = NULL \/ ~HasSource(sources, dragState.key)
    THEN UNCHANGED <<sources, els, sessionPanners>>
    ELSE LET i == SourceIndex(sources, dragState.key)
             norm == NormAt(point)
             pixel == PixelAt(norm.x, norm.y)
         IN /\ sources' = [sources EXCEPT ![i].pos = norm]
            /\ els' = [els EXCEPT ![sources[i].el].left = pixel.left,
                                  ![sources[i].el].top = pixel.top]
            /\ sessionPanners' =
                 updatePannerPosition(sessionPanners, dragState.key,
                                      norm.x, norm.y)

PointerMove(pointerId, point) ==
  /\ onPointerMove(point)
  /\ UNCHANGED <<now, pmVars, elCount, selectedKey, dragState, sessionIndex,
                 timers, pressed, ctx, connected>>
  /\ UNCHANGED <<audioInitFailed, busVars, vizVars, page, cliVars, netVars, serverVars, sizeVars>>

\* onPointerUp(e): the document-level listener
onPointerUp ==
  IF dragState = NULL
    THEN UNCHANGED <<els, pmVars, dragState>>
    ELSE /\ dragState' = NULL
         /\ IF ~HasSource(sources, dragState.key)
              THEN UNCHANGED <<els, pmVars>>
              ELSE LET source == GetSource(sources, dragState.key)
                   IN /\ els' = [els EXCEPT ![source.el].dragging = FALSE]
                      /\ positions' =
                           savePositionMap(positions, dragState.key,
                                           source.pos.x, source.pos.y, now)
                      /\ storage' =
                           savePositionStorage(storage, dragState.key,
                                               source.pos.x, source.pos.y, now)
                      /\ saved' =
                           Put(saved, dragState.key,
                               [x |-> source.pos.x, y |-> source.pos.y,
                                savedAt |-> now])

PointerUp(pointerId) ==
  /\ pressed[pointerId] # 0
  /\ onPointerUp
  /\ pressed' = [pressed EXCEPT ![pointerId] = 0]
  /\ UNCHANGED <<now, sources, elCount, selectedKey, sessionIndex, timers,
                 audioVars, connected>>
  /\ UNCHANGED <<audioInitFailed, busVars, vizVars, page, cliVars, netVars, serverVars, sizeVars>>

\* click on the container or the canvas: deselect()
ClickField ==
  /\ els' = deselectEls(sources, els, selectedKey)
  /\ selectedKey' = NoKey
  /\ UNCHANGED <<now, pmVars, sources, elCount, dragState, sessionIndex,
                 timers, pressed, audioVars, connected>>
  /\ UNCHANGED <<audioInitFailed, busVars, vizVars, page, cliVars, netVars, serverVars, sizeVars>>

(***************************************************************************)
(* Reset layout                                                            *)
(***************************************************************************)
\* The loop of resetLayout from entry i on.  R carries what the loop has
\* written so far: sources, els, sessionIndex, sessionPanners, positions,
\* storage, and the history of the savePosition calls.
RECURSIVE resetFrom(_, _)
resetFrom(R, i) ==
  IF i > Len(R.sources) THEN R
  ELSE LET key == R.sources[i].key
           pos == getPosition(R.positions, key, R.sessionIndex)
           pixel == PixelAt(pos.x, pos.y)
       IN resetFrom(
            [sources |-> [R.sources EXCEPT ![i].pos = pos],
             els |-> [R.els EXCEPT ![R.sources[i].el].left = pixel.left,
                                   ![R.sources[i].el].top = pixel.top,
                                   ![R.sources[i].el].index = R.sessionIndex],
             sessionIndex |-> R.sessionIndex + 1,
             sessionPanners |->
               updatePannerPosition(R.sessionPanners, key, pos.x, pos.y),
             positions |-> savePositionMap(R.positions, key, pos.x, pos.y, now),
             storage |->
               savePositionStorage(R.storage, key, pos.x, pos.y, now),
             saved |->
               Put(R.saved, key, [x |-> pos.x, y |-> pos.y, savedAt |-> now])],
            i + 1)

\* variant: the session index is not set back to 0
resetLayoutKeepIndex ==
  resetFrom([sources |-> sources, els |-> els, sessionIndex |-> sessionIndex,
             sessionPanners |-> sessionPanners,
             positions |-> <<>>,
             storage |-> clearAllStorage(storage, positions),
             saved |-> <<>>], 1)

resetLayout ==
  resetFrom([sources |-> sources, els |-> els, sessionIndex |-> 0,
             sessionPanners |-> sessionPanners,
             positions |-> <<>>,
             storage |-> clearAllStorage(storage, positions),
             saved |-> <<>>], 1)

ResetLayout ==
  /\ loaded
  /\ LET R == resetLayout
     IN /\ sources' = R.sources
        /\ els' = R.els
        /\ sessionIndex' = R.sessionIndex
        /\ sessionPanners' = R.sessionPanners
        /\ positions' = R.positions
        /\ storage' = R.storage
        /\ saved' = R.saved
  /\ UNCHANGED <<now, elCount, selectedKey, dragState, timers, pressed, ctx,
                 connected>>
  /\ UNCHANGED <<audioInitFailed, busVars, vizVars, page, cliVars, netVars, serverVars, sizeVars>>

(***************************************************************************)
(* Visualizer: the particles and the animation loop                        *)
(***************************************************************************)
\* event types that addEvent tells apart; any other type is drawn as
\* "Notification" is
EventTypes == {"Stop", "PreToolUse", "PostToolUse", "Notification"}

StopLifetime == 120

ToolLifetime == 45

DefaultLifetime == 60

Lifetime(event_type) ==
  IF event_type = "Stop" THEN StopLifetime
  ELSE IF event_type \in {"PreToolUse", "PostToolUse"} THEN ToolLifetime
  ELSE DefaultLifetime

\* names for the particle objects that are live at the same time
ParticleIds == {1, 2}

\* handles requestAnimationFrame returns
FrameIds == {1, 2, 3}

Viz(ps, animating, id, pending, drawn) ==
  [particles |-> ps, isAnimating |-> animating, animationId |-> id,
   frames |-> pending, canvas |-> drawn]

CurrentViz == Viz(particles, isAnimating, animationId, frames, canvas)

SetViz(V) ==
  /\ particles' = V.particles
  /\ isAnimating' = V.isAnimating
  /\ animationId' = V.animationId
  /\ frames' = V.frames
  /\ canvas' = V.canvas

\* a handle that is neither pending nor held in animationId
requestAnimationFrame(V) ==
  CHOOSE id \in FrameIds \ (V.frames \cup {V.animationId}) :
    \A other \in FrameIds \ (V.frames \cup {V.animationId}) : id <= other

cancelAnimationFrame(pending, id) == pending \ {id}

\* variant: a particle is dropped on the tick after its lifetime reached 0
filterParticlesLate(ps) ==
  SelectSeq([i \in 1..Len(ps) |-> [ps[i] EXCEPT !.lifetime = @ - 1]],
            LAMBDA p : p.lifetime >= 0)

\* the filter callback of animate: p.lifetime--, dropped if <= 0
filterParticles(ps) ==
  SelectSeq([i \in 1..Len(ps) |-> [ps[i] EXCEPT !.lifetime = @ - 1]],
            LAMBDA p : p.lifetime > 0)

stopAnimation(V) ==
  [V EXCEPT !.isAnimating = FALSE,
            !.frames = IF V.animationId # NoFrame
                         THEN cancelAnimationFrame(V.frames, V.animationId)
                         ELSE V.frames,
            !.animationId = NoFrame,
            !.canvas = "static"]

animate(V) ==
  IF ~V.isAnimating THEN V
  ELSE LET W == [V EXCEPT !.particles = filterParticles(V.particles),
                          !.canvas = "particles"]
       IN IF W.particles = <<>> THEN stopAnimation(W)
          ELSE [W EXCEPT !.animationId = requestAnimationFrame(W),
                         !.frames = W.frames \cup {requestAnimationFrame(W)}]

startAnimation(V) == animate([V EXCEPT !.isAnimating = TRUE])

updateSession(V) ==
  IF ~V.isAnimating THEN [V EXCEPT !.canvas = "static"] ELSE V

FreeParticleId(ps) ==
  CHOOSE id \in ParticleIds \ { ps[i].id : i \in 1..Len(ps) } :
    \A other \in ParticleIds \ { ps[i].id : i \in 1..Len(ps) } : id <= other

\* variant: the loop is started on every spawn
pushParticleRestart(V, event_type) ==
  startAnimation([V EXCEPT !.particles =
                    Append(V.particles,
                           [id |-> FreeParticleId(V.particles),
                            lifetime |-> Lifetime(event_type),
                            maxLifetime |-> Lifetime(event_type)])])

\* addEvent from this.particles.push on: the particle is added and the
\* loop started if it is not running
pushParticle(V, event_type) ==
  LET W == [V EXCEPT !.particles =
              Append(V.particles,
                     [id |-> FreeParticleId(V.particles),
                      lifetime |-> Lifetime(event_type),
                      maxLifetime |-> Lifetime(event_type)])]
  IN IF ~W.isAnimating THEN startAnimation(W) ELSE W

\* what handleEvent does to the Visualizer: updateSession if the event has a
\* session_id, then addEvent
AddEvent(event_type, hasSession) ==
  /\ connected
  /\ Len(particles) < Cardinality(ParticleIds)
  /\ SetViz(pushParticle(IF hasSession THEN updateSession(CurrentViz)
                         ELSE CurrentViz,
                         event_type))
  /\ UNCHANGED <<now, pmVars, overlayVars, timers, pressed, audioVars,
                 connected, audioInitFailed, busVars, page, cliVars, netVars, serverVars, sizeVars>>

\* an animation frame: the callback `() => this.animate()` runs
Tick ==
  /\ \E id \in frames :
       SetViz(animate([CurrentViz EXCEPT !.frames = frames \ {id}]))
  /\ UNCHANGED <<now, pmVars, overlayVars, timers, pressed, audioVars,
                 connected, audioInitFailed, busVars, page, cliVars, netVars, serverVars, sizeVars>>

\* resize timers pending at the same time
MaxResizeTimers == 2

\* variant: every resize event sets a timer
throttledResizeEvery(timeout, pending) ==
  [resizeTimeout |-> TRUE, resizeTimers |-> pending + 1]

\* throttledResize(): nothing while a timer is set, else a timer of 100 ms
throttledResize(timeout, pending) ==
  IF timeout
    THEN [resizeTimeout |-> timeout, resizeTimers |-> pending]
    ELSE [resizeTimeout |-> TRUE, resizeTimers |-> pending + 1]

\* the window is resized and the canvas is laid out at size r: the
\* listener of 'resize' runs throttledResize()
WindowResize(r) ==
  /\ loaded
  /\ resizeTimers < MaxResizeTimers
  /\ rect' = r
  /\ resizeTimeout' = throttledResize(resizeTimeout, resizeTimers).resizeTimeout
  /\ resizeTimers' = throttledResize(resizeTimeout, resizeTimers).resizeTimers
  /\ UNCHANGED <<now, pmVars, overlayVars, timers, pressed, audioVars,
                 connected, audioInitFailed, busVars, vizVars, page, cliVars,
                 netVars, serverVars, size>>

\* the resize timeout runs resize(), which reads the size of the canvas
\* and ends with drawStatic(), and then clears resizeTimeout
Resize ==
  /\ loaded
  /\ resizeTimers > 0
  /\ size' = rect
  /\ canvas' = "static"
  /\ resizeTimeout' = FALSE
  /\ resizeTimers' = resizeTimers - 1
  /\ UNCHANGED <<now, pmVars, overlayVars, timers, pressed, audioVars,
                 connected, audioInitFailed, busVars, particles, isAnimating,
                 animationId, frames, page, cliVars, netVars, serverVars, rect>>

(***************************************************************************)
(* Time and page reload                                                    *)
(***************************************************************************)
AdvanceTime(days) ==
  /\ now + days <= MaxNow
  /\ now' = now + days
  /\ UNCHANGED <<pmVars, overlayVars, timers, pressed, audioVars, connected>>
  /\ UNCHANGED <<audioInitFailed, busVars, vizVars, page, cliVars, netVars, serverVars, sizeVars>>

\* The page is loaded again: localStorage survives, everything else is
\* constructed anew (new PositionManager, SourceOverlay, AudioEngine).
Reload ==
  /\ IF ConstructThrows(storage)
       THEN /\ storage' \in AbortedCleanups(storage, now)
            /\ positions' = << >>
            /\ page' = "failed"
       ELSE /\ storage' = ConstructStorage(storage, now)
            /\ positions' = ConstructMap(storage, now)
            /\ page' = "loaded"
  /\ sources' = <<>>
  /\ els' = <<>>
  /\ elCount' = 0
  /\ selectedKey' = NoKey
  /\ dragState' = NULL
  /\ sessionIndex' = 0
  /\ timers' = <<>>
  /\ pressed' = [p \in PointerIds |-> 0]
  /\ ctx' = FALSE
  /\ sessionPanners' = <<>>
  /\ connected' = FALSE
  /\ audioInitFailed' = FALSE
  /\ masterGain' = NoGain
  /\ reverbGain' = NoGain
  /\ dryGain' = NoGain
  /\ muted' = FALSE
  /\ volume' = DefaultVolume
  /\ reverbAmount' = DefaultReverb
  /\ particles' = <<>>
  /\ isAnimating' = FALSE
  /\ animationId' = NoFrame
  /\ frames' = {}
  /\ canvas' = "static"
  /\ ws' = NoSocket
  /\ sockets' = << >>
  /\ btnDisabled' = FALSE
  /\ deliveries' = 0
  /\ resizeTimeout' = FALSE
  /\ resizeTimers' = 0
  /\ size' = rect
  /\ UNCHANGED <<now, saved, cliVars, serverVars, rect>>

(***************************************************************************)
(* The server: POST /events                                                *)
(***************************************************************************)
\* sessions the server registers, and events it counts per session
MaxSessions == 2
MaxEvents == 2

\* what a member of the posted object holds: nothing, a string, or a
\* value that is no string
Absent == "undefined"
NotAString == "7"

\* request bodies: a text that is not JSON, the JSON text null, and objects
\* with or without the members of a BingbongEvent
Bodies ==
  {[json |-> "malformed"], [json |-> "null"]} \cup
  [json : {"object"},
   event_type : {Absent, "Stop"},
   session_id : {Absent, NotAString, "s1", "s2"},
   machine_id : {Absent, "m1"}]

\* `${event.machine_id}:${event.session_id}`
RegistryKey(event) == event.machine_id \o ":" \o event.session_id

\* getOrCreateSession: a new key takes the counter as its index; the
\* session's event_count is incremented
getOrCreateSession(reg, counter, event) ==
  LET key == RegistryKey(event)
      known == key \in DOMAIN reg
      session == IF known THEN reg[key] ELSE [index |-> counter, event_count |-> 0]
  IN [registry |-> Put(reg, key, [session EXCEPT !.event_count = @ + 1]),
      sessionCounter |-> IF known THEN counter ELSE counter + 1]

\* enriched.session_id.slice(0, 8) throws unless session_id is a string
SliceThrows(event) == event.session_id \in {Absent, NotAString}

\* the handler of POST /events: req.json(), enrichEvent, the log line,
\* broadcast; any exception is answered with status 400
PostEvent(body) ==
  /\ IF body.json = "malformed" \/ body.json = "null"
       THEN /\ response' = "error"
            /\ UNCHANGED <<registry, sessionCounter, broadcasts>>
       ELSE LET got == getOrCreateSession(registry, sessionCounter, body)
            IN /\ got.sessionCounter <= MaxSessions
               /\ got.registry[RegistryKey(body)].event_count <= MaxEvents
               /\ registry' = got.registry
               /\ sessionCounter' = got.sessionCounter
               /\ IF SliceThrows(body)
                    THEN /\ response' = "error"
                         /\ UNCHANGED broadcasts
                    ELSE /\ response' = "ok"
                         /\ broadcasts' =
                              Append(broadcasts,
                                     [key |-> RegistryKey(body),
                                      session_index |->
                                        got.registry[RegistryKey(body)].index])
  /\ UNCHANGED <<clientVars, netVars, sizeVars, cliVars>>

(***************************************************************************)
(* bingbong emit.  One run of the command: the environment, the arguments, *)
(* what stdin holds and what the network does are its inputs.              *)
(***************************************************************************)
\* argv[0]; "" is a missing event type
EmitArgs == {"", "Stop"}

\* stdin: a terminal, a pipe nobody writes to, or a pipe holding a text
StdinKinds ==
  {"tty", "silent", "empty", "malformed", "claude", "cursor", "bare",
   "null", "array", "number"}

\* what fetch meets
Networks == {"accepted", "refused", "timeout", "error status"}

\* `let input = {}`
EmptyInput == [json |-> "object", fields |-> << >>]

\* JSON.parse(raw) for the texts that parse
ParseJson(stdin) ==
  CASE stdin = "claude" -> [json |-> "object", fields |-> [session_id |-> "s1"]]
    [] stdin = "cursor" ->
         [json |-> "object",
          fields |-> [conversation_id |-> "c1", generation_id |-> "g1"]]
    [] stdin = "bare"   -> [json |-> "object", fields |-> [tool_name |-> "Bash"]]
    [] stdin = "null"   -> [json |-> "null", fields |-> << >>]
    [] stdin = "array"  -> [json |-> "array", fields |-> << >>]
    [] stdin = "number" -> [json |-> "number", fields |-> << >>]

\* the text the race of Bun.stdin.text() against the one second timer gives
RawText(stdin) == IF stdin = "silent" THEN "empty" ELSE stdin

\* `input` when line 53 is reached: stdin is skipped on a terminal, an empty
\* text is not parsed, and a text that does not parse is caught
readInput(stdin) ==
  IF stdin = "tty" THEN EmptyInput
  ELSE IF RawText(stdin) = "empty" THEN EmptyInput
  ELSE IF RawText(stdin) = "malformed" THEN EmptyInput
  ELSE ParseJson(RawText(stdin))

\* reading a property of null is a TypeError; of any other value it gives
\* the property or undefined
ReadThrows(input) == input.json = "null"

\* input.session_id ?? input.conversation_id ?? input.generation_id ?? "unknown"
sessionIdOf(input) ==
  IF "session_id" \in DOMAIN input.fields THEN input.fields.session_id
  ELSE IF "conversation_id" \in DOMAIN input.fields
       THEN input.fields.conversation_id
  ELSE IF "generation_id" \in DOMAIN input.fields
       THEN input.fields.generation_id
  ELSE "unknown"

\* { ...input, event_type, session_id, ... }
payloadOf(input, eventType) ==
  [event_type |-> eventType, session_id |-> sessionIdOf(input),
   fields |-> input.fields]

\* emit(argv): whether it threw, and the POST requests it made.  Every
\* outcome of fetch, a rejection included, is swallowed; line 53 is outside
\* both try blocks.
emit(enabled, eventType, stdin, network) ==
  IF ~enabled \/ eventType = ""
  THEN [threw |-> FALSE, posts |-> << >>]
  ELSE LET input == readInput(stdin)
       IN IF ReadThrows(input)
          THEN [threw |-> TRUE, posts |-> << >>]
          ELSE [threw |-> FALSE, posts |-> <<payloadOf(input, eventType)>>]

Emit(enabled, eventType, stdin, network) ==
  /\ emitRun' = [enabled |-> enabled, eventType |-> eventType,
                 stdin |-> stdin, network |-> network,
                 result |-> emit(enabled, eventType, stdin, network)]
  /\ UNCHANGED <<clientVars, netVars, serverVars, sizeVars, cursorHooks,
                 claudeHooks>>

(***************************************************************************)
(* install-hooks.  A hooks file maps event names to lists of entries.  A   *)
(* command is kept as the program it runs and the event it is given: the   *)
(* installers tell entries apart by the program's name being part of the   *)
(* command string.                                                         *)
(***************************************************************************)
\* the programs a command of a hooks file runs here
UserTool == "my-hook.sh"
HookScript == "bingbong-hook.sh"
ClaudeScript == "/agents/claude/hooks/"
EmitTool == "bingbong emit"

\* the events hooked: two of each of the source's lists
CURSOR_EVENTS == {"afterFileEdit", "stop"}
CLAUDE_EVENTS == {"PreToolUse", "Stop"}

\* the matcher install gives the entry of an event
Matcher(event) == IF event = "PreToolUse" THEN ".*" ELSE ""

CursorEntry(tool, event) == [command |-> [tool |-> tool, event |-> event]]

ClaudeEntry(matcher, tools, event) ==
  [matcher |-> matcher,
   hooks |-> [i \in DOMAIN tools |->
               [type |-> "command",
                command |-> [tool |-> tools[i], event |-> event]]]]

\* the CLI's test of a Cursor entry: either format
isBingbongCursorEntry(entry) == entry.command.tool \in {HookScript, EmitTool}

\* the shell installer's test: select(.command | contains("bingbong-hook.sh"))
isHookScriptEntry(entry) == entry.command.tool = HookScript

\* the CLI's test of a Claude entry: some command of its hooks array
isBingbongClaudeEntry(entry) ==
  \E i \in DOMAIN entry.hooks :
    entry.hooks[i].command.tool \in {ClaudeScript, EmitTool}

\* the strip loop: every event's list without the entries that are ours
Strip(hooks, isOurs(_)) ==
  [e \in DOMAIN hooks |-> SelectSeq(hooks[e], LAMBDA entry : ~isOurs(entry))]

\* the add loop: one entry pushed on the list of every hooked event
AddEntries(hooks, events, entryOf(_)) ==
  [e \in DOMAIN hooks \cup events |->
     IF e \in events
     THEN Append(IF e \in DOMAIN hooks THEN hooks[e] ELSE << >>, entryOf(e))
     ELSE hooks[e]]

installCursor(hooks) ==
  AddEntries(Strip(hooks, isBingbongCursorEntry), CURSOR_EVENTS,
             LAMBDA e : CursorEntry(EmitTool, e))

installClaude(hooks) ==
  AddEntries(Strip(hooks, isBingbongClaudeEntry), CLAUDE_EVENTS,
             LAMBDA e : ClaudeEntry(Matcher(e), <<EmitTool>>, e))

\* agents/cursor/install-hooks.sh
installHooksSh(hooks) ==
  AddEntries(Strip(hooks, isHookScriptEntry), CURSOR_EVENTS,
             LAMBDA e : CursorEntry(HookScript, e))

InstallCursor ==
  /\ cursorHooks' = installCursor(cursorHooks)
  /\ UNCHANGED <<clientVars, netVars, serverVars, sizeVars, emitRun,
                 claudeHooks>>

InstallHooksSh ==
  /\ cursorHooks' = installHooksSh(cursorHooks)
  /\ UNCHANGED <<clientVars, netVars, serverVars, sizeVars, emitRun,
                 claudeHooks>>

InstallClaude ==
  /\ claudeHooks' = installClaude(claudeHooks)
  /\ UNCHANGED <<clientVars, netVars, serverVars, sizeVars, emitRun,
                 cursorHooks>>

\* the hooks files an installer can find: at most MaxEntries entries under
\* each of some events, the user's, Bingbong's of either format, or both
MaxEntries == 2

Lists(S) ==
  UNION {[1..n -> S] : n \in 0..MaxEntries}

CursorFileEvents == CURSOR_EVENTS \cup {"beforeTabFileRead"}

CursorTools == {UserTool, HookScript, EmitTool}

\* the hooks of ~/.cursor/hooks.json that run the given programs
CursorFile(tools) ==
  [e \in DOMAIN tools |->
     [i \in DOMAIN tools[e] |-> CursorEntry(tools[e][i], e)]]

ClaudeFileEvents == CLAUDE_EVENTS \cup {"TeammateIdle"}

ClaudeTools == {UserTool, ClaudeScript, EmitTool}

\* the hooks of ~/.claude/settings.json that run the given programs
ClaudeFile(tools) ==
  [e \in DOMAIN tools |->
     [i \in DOMAIN tools[e] |-> ClaudeEntry("Bash", <<tools[e][i]>>, e)]]

(***************************************************************************)
(* Specifications.  The client is one program; each specification lets the  *)
(* part of its input vary that a group of properties is about and holds the *)
(* rest still, which keeps the reachable states within what can be          *)
(* enumerated.                                                              *)
(*   Spec       sessions come and go: messages, removals and their timers,  *)
(*              reset layout and page reloads                               *)
(*   FairSpec   appearance and removal of markers and page reloads, with    *)
(*              pending timers eventually firing                            *)
(*   SpecDrag   pointer input on the markers of one page load, two          *)
(*              pointers, no removals                                       *)
(*   SpecFade   pointer input on markers that are being removed, one        *)
(*              pointer                                                     *)
(*   SpecStore  positions saved by drags and resets, over page reloads and  *)
(*              days, one pointer                                           *)
(*   SpecSnapshot  snapshots and events, with a session that has no         *)
(*              machine_id among them                                       *)
(*   SpecAudio  the audio engine: init, volume, reverb and mute, with       *)
(*              sessions appearing                                          *)
(***************************************************************************)
Next ==
  \/ \E audioOk \in BOOLEAN : Connect(audioOk)
  \/ Disconnect
  \/ \E session \in Sessions : HandleEvent(session)
  \/ \E list \in SnapshotLists : HandleInit(list)
  \/ \E key \in Keys : RemoveSource(key)
  \/ TimerFire
  \/ ResetLayout
  \/ Reload

Spec == Init /\ [][Next]_vars

\* the life of markers: sessions appear, are removed, and the page reloads
NextLife ==
  \/ \E audioOk \in BOOLEAN : Connect(audioOk)
  \/ Disconnect
  \/ \E session \in Sessions : HandleEvent(session)
  \/ \E list \in SnapshotLists : HandleInit(list)
  \/ \E key \in Keys : RemoveSource(key)
  \/ TimerFire
  \/ Reload

\* a callback given to setTimeout is run once its delay has passed
FairSpec == Init /\ [][NextLife]_vars /\ WF_vars(TimerFire)

\* connect() has completed, with or without audio
InitDrag ==
  /\ now = 0
  /\ \E raw \in {r \in InitialStorages : ConstructStorage(r, 0) = r} :
       /\ storage = ConstructStorage(raw, 0)
       /\ positions = ConstructMap(raw, 0)
       /\ saved = [k \in DOMAIN raw |->
                    [x |-> raw[k].x, y |-> raw[k].y, savedAt |-> raw[k].savedAt]]
  /\ sources = <<>>
  /\ els = <<>>
  /\ elCount = 0
  /\ selectedKey = NoKey
  /\ dragState = NULL
  /\ sessionIndex = 0
  /\ timers = <<>>
  /\ pressed = [p \in PointerIds |-> 0]
  /\ ctx \in BOOLEAN
  /\ sessionPanners = <<>>
  /\ connected = TRUE
  /\ audioInitFailed = ~ctx
  /\ masterGain = (IF ctx THEN DefaultVolume ELSE NoGain)
  /\ reverbGain = (IF ctx THEN DefaultReverb ELSE NoGain)
  /\ dryGain = (IF ctx THEN Unit - DefaultReverb ELSE NoGain)
  /\ muted = FALSE
  /\ volume = DefaultVolume
  /\ particles = <<>>
  /\ isAnimating = FALSE
  /\ animationId = NoFrame
  /\ frames = {}
  /\ canvas = "static"
  /\ page = "loaded"
  /\ NoCli
  /\ NoNet
  /\ NoServer
  /\ NoResize
  /\ reverbAmount = DefaultReverb

NextDrag ==
  \/ \E session \in Sessions : HandleEvent(session)
  \/ \E pointerId \in PointerIds, el \in 1..Cardinality(Keys) :
       PointerDown(pointerId, el)
  \/ \E pointerId \in PointerIds, point \in DragPoints :
       PointerMove(pointerId, point)
  \/ \E pointerId \in PointerIds : PointerUp(pointerId)
  \/ ClickField
  \/ ResetLayout

SpecDrag == InitDrag /\ [][NextDrag]_vars

NextFade ==
  \/ \E session \in Sessions : HandleEvent(session)
  \/ \E key \in Keys : RemoveSource(key)
  \/ TimerFire
  \/ \E el \in 1..MaxElements : PointerDown(1, el)
  \/ PointerMove(1, OutsidePoint)
  \/ PointerUp(1)
  \/ ClickField

SpecFade == InitDrag /\ [][NextFade]_vars

NextStore ==
  \/ \E audioOk \in BOOLEAN : Connect(audioOk)
  \/ \E session \in Sessions : HandleEvent(session)
  \/ \E el \in 1..Cardinality(Keys) : PointerDown(1, el)
  \/ \E point \in DragPoints : PointerMove(1, point)
  \/ PointerUp(1)
  \/ ResetLayout
  \/ \E days \in TimeSteps : AdvanceTime(days)
  \/ Reload

SpecStore == Init /\ [][NextStore]_vars

NextSnapshot ==
  \/ \E audioOk \in BOOLEAN : Connect(audioOk)
  \/ Disconnect
  \/ \E event \in AllSessions : HandleEvent(event)
  \/ \E list \in AllSnapshotLists : HandleInit(list)
  \/ Reload

SpecSnapshot == Init /\ [][NextSnapshot]_vars

NextAudio ==
  \/ \E audioOk \in BOOLEAN : Connect(audioOk)
  \/ Disconnect
  \/ \E event \in Sessions : HandleEvent(event)
  \/ \E value \in Volumes : SetVolume(value)
  \/ \E value \in ReverbMixes : SetReverb(value)
  \/ ToggleMute
  \/ Reload

SpecAudio == Init /\ [][NextAudio]_vars

\* the page is connected and idle
InitParticles == InitDrag /\ ctx /\ storage = << >>

NextParticles ==
  \/ \E event_type \in EventTypes, hasSession \in BOOLEAN :
       AddEvent(event_type, hasSession)
  \/ Tick
  \/ WindowResize(InitialSize)
  \/ Resize

SpecParticles == InitParticles /\ [][NextParticles]_vars

\* the short-lived particles, of tool events and of events of other types
ShortEventTypes == {"PreToolUse", "Notification"}

NextFrames ==
  \/ \E event_type \in ShortEventTypes, hasSession \in BOOLEAN :
       AddEvent(event_type, hasSession)
  \/ Tick

\* animation frames keep firing while a callback is pending
FairParticles == InitParticles /\ [][NextFrames]_vars /\ WF_vars(Tick)

\* what a page load may find in localStorage under the prefix: records
\* saved 29 and 31 days ago, a record with a coordinate outside 0..1, text
\* that is not JSON, and the JSON text null
FoundValues ==
  { Stringify([x |-> p.x, y |-> p.y, savedAt |-> d]) :
      p \in StoredPoints, d \in {-29, -31} }
  \cup { Stringify([x |-> 2 * Unit, y |-> Unit \div 2, savedAt |-> -29]),
         [json |-> "invalid"],
         [json |-> "null"] }

FoundStorages == UNION { [ks -> FoundValues] : ks \in SUBSET Keys }

\* the page is about to be loaded
InitLoad ==
  /\ now = 0
  /\ storage \in FoundStorages
  /\ positions = << >>
  /\ saved = << >>
  /\ sources = <<>>
  /\ els = <<>>
  /\ elCount = 0
  /\ selectedKey = NoKey
  /\ dragState = NULL
  /\ sessionIndex = 0
  /\ timers = <<>>
  /\ pressed = [p \in PointerIds |-> 0]
  /\ ctx = FALSE
  /\ sessionPanners = <<>>
  /\ connected = FALSE
  /\ audioInitFailed = FALSE
  /\ masterGain = NoGain
  /\ reverbGain = NoGain
  /\ dryGain = NoGain
  /\ muted = FALSE
  /\ volume = DefaultVolume
  /\ reverbAmount = DefaultReverb
  /\ particles = <<>>
  /\ isAnimating = FALSE
  /\ animationId = NoFrame
  /\ frames = {}
  /\ canvas = "static"
  /\ page = "new"
  /\ NoCli
  /\ NoNet
  /\ NoServer
  /\ NoResize

NextLoad ==
  \/ Reload
  \/ \E audioOk \in BOOLEAN : Connect(audioOk)
  \/ \E event \in Sessions : HandleEvent(event)
  \/ ResetLayout

SpecLoad == InitLoad /\ [][NextLoad]_vars

\* The command line runs whether a page is open or not: no page is.
NoPage ==
  /\ now = 0
  /\ storage = << >>
  /\ positions = << >>
  /\ saved = << >>
  /\ sources = <<>>
  /\ els = <<>>
  /\ elCount = 0
  /\ selectedKey = NoKey
  /\ dragState = NULL
  /\ sessionIndex = 0
  /\ timers = <<>>
  /\ pressed = [p \in PointerIds |-> 0]
  /\ ctx = FALSE
  /\ sessionPanners = <<>>
  /\ connected = FALSE
  /\ audioInitFailed = FALSE
  /\ masterGain = NoGain
  /\ reverbGain = NoGain
  /\ dryGain = NoGain
  /\ muted = FALSE
  /\ volume = DefaultVolume
  /\ reverbAmount = DefaultReverb
  /\ particles = <<>>
  /\ isAnimating = FALSE
  /\ animationId = NoFrame
  /\ frames = {}
  /\ canvas = "static"
  /\ page = "new"

\* bingbong emit, run on every environment, argument, stdin and network.
InitEmit == NoPage /\ NoCli /\ NoNet /\ NoServer /\ NoResize

NextEmit ==
  \E enabled \in BOOLEAN, eventType \in EmitArgs, stdin \in StdinKinds,
     network \in Networks :
    Emit(enabled, eventType, stdin, network)

SpecEmit == InitEmit /\ [][NextEmit]_vars

\* The installers, run in any order and any number of times on the hooks
\* files a user can have.
InitInstall ==
  /\ NoPage
  /\ NoNet
  /\ NoServer
  /\ NoResize
  /\ emitRun = NULL
  /\ \/ /\ \E D \in SUBSET CursorFileEvents :
              \E tools \in [D -> Lists(CursorTools)] :
                cursorHooks = CursorFile(tools)
        /\ claudeHooks = << >>
     \/ /\ cursorHooks = << >>
        /\ \E D \in SUBSET ClaudeFileEvents :
              \E tools \in [D -> Lists(ClaudeTools)] :
                claudeHooks = ClaudeFile(tools)

NextInstall == InstallCursor \/ InstallHooksSh \/ InstallClaude

SpecInstall == InitInstall /\ [][NextInstall]_vars

\* The connect button clicked at any moment, and every socket's callbacks
\* in any order.
InitSocket == Init /\ storage = << >>

NextSocket ==
  \/ \E audioOk \in BOOLEAN : ClickConnect(audioOk)
  \/ \E s \in 1..MaxSockets : SocketOpen(s)
  \/ \E s \in 1..MaxSockets : SocketFail(s)
  \/ \E s \in 1..MaxSockets : SocketClose(s)
  \/ \E session \in Sessions : Broadcast(session)

SpecSocket == InitSocket /\ [][NextSocket]_vars

\* The server under every request body.
InitServer == NoPage /\ NoCli /\ NoNet /\ NoServer /\ NoResize

NextServer == \E body \in Bodies : PostEvent(body)

SpecServer == InitServer /\ [][NextServer]_vars

\* Bursts of resize events while tool events are drawn; a timer that was
\* set runs.
NextResize ==
  \/ \E r \in Sizes : WindowResize(r)
  \/ Resize
  \/ AddEvent("PreToolUse", FALSE)
  \/ Tick

SpecResize == InitParticles /\ [][NextResize]_vars

FairResize == InitParticles /\ [][NextResize]_vars /\ WF_vars(Resize)

(***************************************************************************)
(* Properties                                                              *)
(***************************************************************************)
FallbackIndices == 0..Len(CosTable)

SavedPos(k) == Pos(saved[k].x, saved[k].y)

InWindow(k) == now - saved[k].savedAt <= RetentionDays

\* C1: once savePosition(k, x, y) has been called, getPosition(k, i) is
\* (x, y) for every fallback index i, on the store that took the call and on
\* a store constructed later over the same localStorage (in this state or
\* after a reload), as long as no more than 30 days have passed since the
\* call and neither a later save of k nor clearAll came in between.
C1_RoundTrip ==
  \A k \in DOMAIN saved :
    InWindow(k) =>
      \A i \in FallbackIndices :
        /\ getPosition(positions, k, i) = SavedPos(k)
        /\ getPosition(ConstructMap(storage, now), k, i) = SavedPos(k)

\* C1 witness: a position saved by a drag release on day 0 is read back on
\* day 30 by the store of a later page load
C1_Witness ==
  \E k \in DOMAIN saved :
    /\ SavedPos(k) = NormAt(InsidePoint)
    /\ saved[k].savedAt = 0
    /\ now = 30
    /\ elCount = 0
    /\ getPosition(positions, k, 1) = NormAt(InsidePoint)

IsCreated(k) ==
  /\ HasSource(sources', k)
  /\ GetSource(sources', k).el > elCount

IsRemovalStep ==
  \/ Len(timers') = Len(timers) + 1
  \/ timers # <<>> /\ timers' = Tail(timers) /\ elCount' = elCount

\* C2: a marker created for a key that has a stored record is placed at the
\* stored position (its pos, its element's left/top and, if it has one, its
\* panner), whatever the fallback index; removeSource and its timer leave
\* the store as it is.
C2_CreatedAtStored ==
  [][ /\ \A k \in DOMAIN positions :
           IsCreated(k) =>
             LET source == GetSource(sources', k)
                 stored == Pos(positions[k].x, positions[k].y)
             IN /\ source.pos = stored
                /\ els'[source.el].left = PixelAt(stored.x, stored.y).left
                /\ els'[source.el].top = PixelAt(stored.x, stored.y).top
                /\ k \in DOMAIN sessionPanners' =>
                     sessionPanners'[k] = PannerAt(stored.x, stored.y)
      /\ IsRemovalStep => positions' = positions /\ storage' = storage
    ]_vars

\* C2 witness: the first marker of k was destroyed (a second timer for it is
\* still pending) and the marker created for k afterwards, with fallback
\* index 1, stands at the stored position
C2_Witness ==
  \E k \in DOMAIN positions :
    /\ timers = <<[key |-> k, el |-> 1]>>
    /\ HasSource(sources, k)
    /\ GetSource(sources, k).el = 2
    /\ sessionIndex = 2
    /\ GetSource(sources, k).pos = Pos(positions[k].x, positions[k].y)
    /\ GetSource(sources, k).pos # autoAssign(1)

Removing(k) ==
  HasSource(sources, k) /\ els[GetSource(sources, k).el].disconnected

HasTimer(pending, e) == \E i \in 1..Len(pending) : pending[i].el = e

\* the create step of an event for a key whose marker is fading out changes
\* nothing
C3_EventIgnored ==
  \A session \in Sessions :
    Removing(SessionKey(session)) =>
      createSource(CurrentOverlay, positions, session) = CurrentOverlay

\* a marker element that is fading out keeps fading out, with its timer
\* pending, until it leaves the container; when it has left, its key has no
\* marker and no voice
C3_StaysRemoving ==
  \A e \in DOMAIN els :
    els[e].disconnected =>
      IF e \in DOMAIN els'
        THEN els'[e].disconnected /\ HasTimer(timers', e)
        ELSE /\ ~HasSource(sources', els[e].key)
             /\ els[e].key \notin DOMAIN sessionPanners'

\* a marker that is created is a new element, not fading out, placed where
\* the store resolves its key
C3_BrandNew ==
  \A k \in Keys :
    IsCreated(k) =>
      LET source == GetSource(sources', k)
      IN /\ source.el \notin DOMAIN els
         /\ ~HasTimer(timers', source.el)
         /\ ~els'[source.el].disconnected
         /\ \E index \in sessionIndex..(sessionIndex' - 1) :
              source.pos = getPosition(positions, k, index)

C3_Destroyed(e) ==
  (e \in DOMAIN els /\ els[e].disconnected) ~> (e \notin DOMAIN els)

C4_ExistsUntilTimer ==
  [][ \A i \in 1..Len(sources) :
        LET e == sources[i].el
            k == sources[i].key
        IN (\/ \A j \in 1..Len(sources') : sources'[j].el # e
            \/ k \in DOMAIN sessionPanners /\ k \notin DOMAIN sessionPanners')
           => \/ Reload
              \/ timers # <<>> /\ Head(timers).el = e /\ timers' = Tail(timers)
    ]_vars

KeyOf(e) == els[e].key

\* the step is the pointer-up of p, which pressed a marker still on the page
Released(p) ==
  /\ pressed[p] \in DOMAIN els
  /\ pressed'[p] = 0
  /\ ~Reload

\* p and q hold two different markers
TwoDrags(p, q) ==
  /\ p # q
  /\ pressed[p] # 0
  /\ pressed[q] # 0
  /\ KeyOf(pressed[p]) # KeyOf(pressed[q])

StoredAt(map, k, pos) == k \in DOMAIN map /\ Pos(map[k].x, map[k].y) = pos

\* C5 (as claimed): while two pointers hold two different markers, the
\* release of one pointer ends the drag of the marker that pointer pressed,
\* persists the position of that marker, and leaves the drag mark and the
\* stored record of the other pointer's marker as they were.
C5_IndependentDrags ==
  [][ \A p, q \in PointerIds :
        (TwoDrags(p, q) /\ Released(p)) =>
          LET mine == pressed[p]
              other == pressed[q]
          IN /\ ~els'[mine].dragging
             /\ StoredAt(positions', KeyOf(mine),
                         GetSource(sources', KeyOf(mine)).pos)
             /\ els'[other].dragging = els[other].dragging
             /\ KeyOf(other) \in DOMAIN positions' =>
                  /\ KeyOf(other) \in DOMAIN positions
                  /\ positions'[KeyOf(other)] = positions[KeyOf(other)]
    ]_vars

\* C6 (as claimed): a marker that is fading out is not selected and does not
\* start a drag: its element does not take the selected or the dragging
\* mark.
C6_RemovingIsFinal ==
  [][ \A e \in DOMAIN els \cap DOMAIN els' :
        els[e].disconnected =>
          /\ els'[e].dragging => els[e].dragging
          /\ els'[e].selected => els[e].selected
    ]_vars

InRange(c) == (5 * Unit) \div 100 <= c /\ c <= (95 * Unit) \div 100

C8_WrittenOnRelease ==
  [][ /\ (positions' # positions \/ storage' # storage) =>
           \/ \E p \in PointerIds : Released(p)
           \/ ResetLayout
           \/ Reload
      /\ \A p \in PointerIds :
           (Released(p) /\ HasSource(sources, KeyOf(pressed[p]))) =>
             LET k == KeyOf(pressed[p])
             IN /\ StoredAt(positions', k, GetSource(sources', k).pos)
                /\ StoredAt(loadFromStorage(storage'), k,
                            GetSource(sources', k).pos)
    ]_vars

SourceKeys == {sources[i].key : i \in 1..Len(sources)}

VoiceAt(panners, k, pos) ==
  k \in DOMAIN panners => panners[k] = PannerAt(pos.x, pos.y)

\* what reset layout leaves behind
C9_AfterReset ==
  /\ \A i \in 1..Len(sources) :
       LET k == sources[i].key
           pos == autoAssign(i - 1)
       IN /\ sources[i].pos = pos
          /\ els[sources[i].el].left = PixelAt(pos.x, pos.y).left
          /\ els[sources[i].el].top = PixelAt(pos.x, pos.y).top
          /\ VoiceAt(sessionPanners, k, pos)
          /\ StoredAt(positions, k, pos)
          /\ StoredAt(loadFromStorage(storage), k, pos)
  /\ DOMAIN positions = SourceKeys
  /\ DOMAIN storage = SourceKeys
  /\ sessionIndex = Len(sources)

StoreEmpty == positions = <<>> /\ storage = <<>>

CreatedIndex(k) ==
  sessionIndex + (SourceIndex(sources', k) - Len(sources) - 1)

C11_DuplicateCreateIgnored ==
  /\ [](\A session \in Sessions :
          HasSource(sources, SessionKey(session)) =>
            createSource(CurrentOverlay, positions, session) = CurrentOverlay)
  /\ [][ \A event \in Sessions :
            (HasSource(sources, SessionKey(event)) /\ HandleEvent(event)) =>
              UNCHANGED vars
       ]_vars

\* C11 witness: an event can arrive for a key whose marker is selected and
\* is being dragged, away from where it was created
C11_Witness ==
  \E k \in Keys :
    /\ connected
    /\ HasSource(sources, k)
    /\ selectedKey = k
    /\ dragState # NULL
    /\ dragState.key = k
    /\ GetSource(sources, k).pos = NormAt(OutsidePoint)
    /\ els[GetSource(sources, k).el].dragging
    /\ k \in DOMAIN sessionPanners
    /\ k \in DOMAIN positions

\* one handleEvent per entry, in array order
RECURSIVE handleEvents(_, _, _)
handleEvents(S, map, list) ==
  IF list = <<>> THEN S
  ELSE handleEvents(handleEvent(S, map, Head(list)).overlay, map, Tail(list))

\* C12 (as claimed): a snapshot leaves the overlay (marker collection,
\* positions, fallback-index counter, voices) as one individual event per
\* entry, in array order, would leave it.
C12_SnapshotAsEvents ==
  connected =>
    \A list \in AllSnapshotLists :
      createSources(CurrentOverlay, positions, list)
        = handleEvents(CurrentOverlay, positions, list)

\* the same, for snapshots whose entries all have a machine_id
C12_IdentifiedSnapshotAsEvents ==
  connected =>
    \A list \in SnapshotLists :
      createSources(CurrentOverlay, positions, list)
        = handleEvents(CurrentOverlay, positions, list)

\* C13 (as claimed): an element carries the selected mark only if it is the
\* marker of the key recorded as the current selection, so at most one does.
C13_SingleSelection ==
  \A e \in DOMAIN els :
    els[e].selected =>
      /\ selectedKey = els[e].key
      /\ HasSource(sources, selectedKey)
      /\ GetSource(sources, selectedKey).el = e

\* C14: every voice belongs to a key that has a marker and stands at
\* x = (normX - 0.5) * 10, y = 0, z = (0.5 - normY) * 10 of that marker's
\* position, after creation, during and after drags, and after reset layout.
C14_VoiceFollowsMarker ==
  \A k \in DOMAIN sessionPanners :
    /\ HasSource(sources, k)
    /\ LET pos == GetSource(sources, k).pos
       IN /\ sessionPanners[k].x = (pos.x - Unit \div 2) * 10
          /\ sessionPanners[k].y = 0
          /\ sessionPanners[k].z = (Unit \div 2 - pos.y) * 10

\* C14 witness: during a drag the marker is at the right upper border of the
\* field and its voice is right of and in front of the listener
C14_Witness ==
  \E k \in DOMAIN sessionPanners :
    /\ dragState # NULL
    /\ dragState.key = k
    /\ GetSource(sources, k).pos = Pos((95 * Unit) \div 100, (5 * Unit) \div 100)
    /\ sessionPanners[k] = [x |-> 45000, y |-> 0, z |-> 45000]

\* C15 (as claimed): whenever the audio engine is initialized, the keys that
\* have a voice are the keys that have a marker.
C15_VoicePerMarker ==
  ctx => DOMAIN sessionPanners = SourceKeys

\* C17 (as claimed): once init() has failed the engine has no audio context
\* for the rest of the page session, and so no voice.
C17_NoAudioIsPermanent ==
  [][ audioInitFailed =>
        \/ Reload
        \/ ~ctx' /\ sessionPanners' = <<>>
    ]_vars

\* canvas coordinates of a normalized position
CanvasAt(pos) ==
  [x |-> CenterX + Round((pos.x - Unit \div 2) * 2 * MaxRadius, Unit),
   y |-> CenterY + Round((pos.y - Unit \div 2) * 2 * MaxRadius, Unit)]

ResolvedPos(k) ==
  IF HasSource(sources, k) THEN GetSource(sources, k).pos
  ELSE getPosition(positions, k, sessionIndex)

\* C18: a failed audio initialisation is not surfaced.  The connect attempt
\* in which it fails still opens the connection, and while the failure
\* stands, every event still yields a marker at its resolved position, its
\* session for the session list and a particle at the marker, every
\* snapshot still yields a marker for each of its sessions, and the audio
\* calls on the way do nothing.
C18_FailureNotSurfaced ==
  [][ /\ (~audioInitFailed /\ audioInitFailed') => (connected' /\ ~ctx')
      /\ (audioInitFailed /\ connected) =>
           /\ \A event \in Sessions :
                LET k == SessionKey(event)
                    handled == handleEvent(CurrentOverlay, positions, event)
                IN /\ HasSource(handled.overlay.sources, k)
                   /\ GetSource(handled.overlay.sources, k).pos = ResolvedPos(k)
                   /\ handled.session = event.session_id
                   /\ handled.particle = CanvasAt(ResolvedPos(k))
                   /\ handled.sound = "none"
                   /\ handled.overlay.sessionPanners = sessionPanners
                   /\ HandleEvent(event) => HasSource(sources', k)
           /\ \A list \in SnapshotLists :
                /\ \A i \in 1..Len(list) :
                     HasSource(createSources(CurrentOverlay, positions, list).sources,
                               SessionKey(list[i]))
                /\ HandleInit(list) =>
                     \A i \in 1..Len(list) : HasSource(sources', SessionKey(list[i]))
    ]_vars

\* C18 witness: audio initialisation has failed, the connection is open and
\* two sessions have markers, neither with a voice
C18_Witness ==
  /\ audioInitFailed
  /\ ~ctx
  /\ connected
  /\ Len(sources) = 2
  /\ sessionPanners = <<>>

\* C19: on an initialized engine, creating the panner of a key any number
\* of times leaves one panner for the key, the one it had if it had one;
\* removing the panner of a key twice, or of a key that has none, is the
\* same as removing it once, or not at all; updating the position of a key
\* that has no panner changes nothing.
C19_IdempotentVoices ==
  ctx =>
    \A k \in Keys :
      LET once == createPannerForSession(sessionPanners, k)
          gone == removePannerForSession(sessionPanners, k)
      IN /\ DOMAIN once = DOMAIN sessionPanners \cup {k}
         /\ createPannerForSession(once, k) = once
         /\ createPannerForSession(createPannerForSession(once, k), k) = once
         /\ k \in DOMAIN sessionPanners => once = sessionPanners
         /\ \A j \in DOMAIN sessionPanners \ {k} : once[j] = sessionPanners[j]
         /\ k \notin DOMAIN gone
         /\ removePannerForSession(gone, k) = gone
         /\ k \notin DOMAIN sessionPanners =>
              /\ gone = sessionPanners
              /\ \A p \in StoredPoints \cup {autoAssign(1)} :
                   updatePannerPosition(sessionPanners, k, p.x, p.y) = sessionPanners

\* C19 witness: the engine is initialized, one key has a panner that has
\* been moved away from where a new panner is, and another key has none
C19_Witness ==
  /\ ctx
  /\ \E k \in DOMAIN sessionPanners : sessionPanners[k] # NewPanner
  /\ \E k \in Keys : k \notin DOMAIN sessionPanners

\* C20: once init() has succeeded, a further init() call, as every connect
\* makes one, changes nothing: the context, the gains of the bus, the mute
\* state, the volume and reverb settings and the panners stay as they are.
C20_InitOnce ==
  [][ (ctx /\ \E audioOk \in BOOLEAN : Connect(audioOk)) =>
        /\ UNCHANGED <<ctx, busVars, sessionPanners>>
        /\ ~audioInitFailed'
    ]_vars

\* C20 witness: the engine is initialized, muted, with the reverb changed
\* and a panner, so that the gains differ from what init() would set, and
\* the page is disconnected: the next connect calls init() again
C20_Witness ==
  /\ ctx
  /\ ~connected
  /\ muted
  /\ masterGain # volume
  /\ dryGain # Unit - reverbAmount
  /\ sessionPanners # <<>>

\* C21: on an initialized engine the master gain is 0 when the engine is
\* muted and the volume set last when it is not.
C21_GainFollowsMute ==
  ctx => masterGain = (IF muted THEN 0 ELSE volume)

Live(id) == \E i \in 1..Len(particles) : particles[i].id = id

\* C22: on each tick the lifetime of every particle goes down by one and
\* the particle leaves the list on the tick that brings it to 0, so that no
\* particle in the list has a lifetime of 0 or less; the tick that removes
\* the last particle stops the loop; and if frames keep firing, every
\* particle is removed eventually.
C22_ParticlesExpire ==
  /\ [][ Tick =>
          \A i \in 1..Len(particles) :
            IF particles[i].lifetime > 1
              THEN \E j \in 1..Len(particles') :
                     /\ particles'[j].id = particles[i].id
                     /\ particles'[j].lifetime = particles[i].lifetime - 1
              ELSE \A j \in 1..Len(particles') :
                     particles'[j].id # particles[i].id ]_vars
  /\ [](\A i \in 1..Len(particles) :
          /\ particles[i].lifetime > 0
          /\ particles[i].lifetime <= particles[i].maxLifetime)
  /\ [][ (particles # <<>> /\ particles' = <<>>) =>
          (Tick /\ ~isAnimating' /\ frames' = {}) ]_vars
  /\ \A id \in ParticleIds : Live(id) ~> ~Live(id)

\* C22 witness: two particles are live, the older one on its last tick
C22_Witness ==
  /\ Len(particles) = 2
  /\ particles[1].lifetime = 1
  /\ particles[2].lifetime > 1
  /\ frames # {}

\* C23: between ticks a frame callback is pending exactly when the particle
\* list is not empty, and never more than one; a spawn while idle schedules
\* one, a spawn while running schedules none, and the tick after which no
\* particle remains schedules none and leaves the static drawing.
C23_OneLoop ==
  /\ []( /\ (frames # {}) <=> (particles # <<>>)
         /\ Cardinality(frames) <= 1
         /\ isAnimating <=> (frames # {})
         /\ frames # {} => frames = {animationId}
         /\ frames = {} => animationId = NoFrame )
  /\ [][ (\E event_type \in EventTypes, hasSession \in BOOLEAN :
            AddEvent(event_type, hasSession)) =>
          IF frames = {} THEN Cardinality(frames') = 1 ELSE frames' = frames ]_vars
  /\ [][ (Tick /\ particles' = <<>>) =>
          (frames' = {} /\ ~isAnimating' /\ canvas' = "static") ]_vars

\* C23 witness: a particle was spawned while the loop was running; one
\* callback is pending for the two particles
C23_Witness ==
  /\ Len(particles) = 2
  /\ isAnimating
  /\ Cardinality(frames) = 1

\* a stored value that JSON.parse turns into a record of numbers x, y and
\* a date savedAt
IsRecord(value) == value.json = "object"

\* C24: when the position store is constructed, a record saved more than 30
\* days before is removed from the map and from localStorage, and a record
\* saved less than 30 days before is kept as it is in both and is what
\* getPosition returns for its key.
C24_Retention ==
  [][ Reload =>
        \A k \in DOMAIN storage :
          IsRecord(storage[k]) =>
            /\ storage[k].savedAt < now - RetentionDays =>
                 (k \notin DOMAIN positions' /\ k \notin DOMAIN storage')
            /\ storage[k].savedAt > now - RetentionDays =>
                 /\ k \in DOMAIN storage'
                 /\ storage'[k] = storage[k]
                 /\ k \in DOMAIN positions'
                 /\ \A i \in FallbackIndices :
                      getPosition(positions', k, i) =
                        Pos(storage[k].x, storage[k].y)
    ]_vars

\* a record the store writes: coordinates within 0..1
Conforms(value) ==
  /\ IsRecord(value)
  /\ 0 <= value.x /\ value.x <= Unit
  /\ 0 <= value.y /\ value.y <= Unit

\* C25: whatever localStorage holds under the prefix, constructing the
\* position store completes, every conforming record that is not stale is
\* loaded, and getPosition returns a stored position only from a conforming
\* record.
C25_CorruptDropped ==
  [][ Reload =>
        /\ loaded'
        /\ \A k \in DOMAIN storage :
             (Conforms(storage[k]) /\ ~IsStale(storage[k], now)) =>
               k \in DOMAIN positions'
        /\ \A k \in Keys, i \in FallbackIndices :
             \/ getPosition(positions', k, i) = autoAssign(i)
             \/ /\ k \in DOMAIN storage
                /\ Conforms(storage[k])
                /\ getPosition(positions', k, i) = Pos(storage[k].x, storage[k].y)
    ]_vars

\* C26: for a key without a stored record, getPosition(k, i) is
\* autoAssign(i) for every i, and the step that asks for the position of a
\* new marker of such a key leaves the map and localStorage as they are
\* and puts the marker at autoAssign of the index used.
C26_GetPersistsNothing ==
  /\ [](\A k \in Keys \ DOMAIN positions, i \in FallbackIndices :
          getPosition(positions, k, i) = autoAssign(i))
  /\ [][ \A event \in Sessions :
           (HandleEvent(event) /\ SessionKey(event) \notin DOMAIN positions) =>
             /\ positions' = positions
             /\ storage' = storage
             /\ ~HasSource(sources, SessionKey(event)) =>
                  GetSource(sources', SessionKey(event)).pos =
                    autoAssign(sessionIndex)
       ]_vars

\* C26 witness: a key without a stored record, in the map or in
\* localStorage, has a marker at the auto-assigned position of index 1
C26_Witness ==
  \E k \in Keys :
    /\ k \notin DOMAIN positions
    /\ k \notin DOMAIN storage
    /\ HasSource(sources, k)
    /\ GetSource(sources, k).pos = autoAssign(1)

\* C27: clearAll leaves no entry under the prefix in localStorage.
C27_ResetAllClears ==
  loaded => clearAllStorage(storage, positions) = << >>

RingOf(n) == CHOOSE m \in 1..n : (m - 1) * (m - 1) < n /\ n <= m * m

Clamp19(c) ==
  IF c < Unit \div 10 THEN Unit \div 10
  ELSE IF c > (9 * Unit) \div 10 THEN (9 * Unit) \div 10
  ELSE c

\* C28: autoAssign(0) is (0.5, 0.5); for n >= 1, autoAssign(n) is
\* (0.5 + cos(n * 137.5 deg) * r, 0.5 + sin(n * 137.5 deg) * r) with
\* r = 0.15 + 0.1 * ceil(sqrt(n)), each coordinate clamped to 0.1..0.9; and
\* getPosition gives this value for every key without a record, whatever
\* the map holds and whatever was asked before.
C28_AutoAssign ==
  /\ autoAssign(0) = Pos(Unit \div 2, Unit \div 2)
  /\ \A n \in 1..Len(CosTable) :
       LET r == (15 * Unit) \div 100 + RingOf(n) * (Unit \div 10)
       IN /\ autoAssign(n).x = Clamp19(Unit \div 2 + Round(CosTable[n] * r, Unit))
          /\ autoAssign(n).y = Clamp19(Unit \div 2 + Round(SinTable[n] * r, Unit))
          /\ \A k \in Keys \ DOMAIN positions :
               getPosition(positions, k, n) = autoAssign(n)

\* C28 witness: two markers were placed by autoAssign, at the centre and at
\* the place of index 1, while the map holds no record
C28_Witness ==
  /\ positions = << >>
  /\ Len(sources) = 2
  /\ sources[1].pos = Pos(Unit \div 2, Unit \div 2)
  /\ sources[2].pos = autoAssign(1)
  /\ sources[2].pos # sources[1].pos

\* C29: the emit command never fails: whatever stdin holds (nothing, an
\* empty text, malformed JSON, or valid JSON of any type, null, arrays and
\* scalars included), whatever the network does and even without an event
\* type, a run completes without throwing and sends at most one POST; with
\* BINGBONG_ENABLED=false it sends nothing.
C29_EmitNeverFails ==
  emitRun # NULL =>
    /\ ~emitRun.result.threw
    /\ Len(emitRun.result.posts) <= 1
    /\ ~emitRun.enabled => emitRun.result.posts = << >>

\* a command that runs Bingbong, in any of the formats the installers wrote
IsBingbongCommand(command) == command.tool \in {HookScript, ClaudeScript, EmitTool}

CursorBingbong(entry) == IsBingbongCommand(entry.command)

ClaudeBingbong(entry) ==
  \E i \in DOMAIN entry.hooks : IsBingbongCommand(entry.hooks[i].command)

\* the entries of an event's list that are not Bingbong's
Others(hooks, e, isBingbong(_)) ==
  IF e \in DOMAIN hooks
  THEN SelectSeq(hooks[e], LAMBDA entry : ~isBingbong(entry))
  ELSE << >>

\* one run of an installer on a hooks file leaves one Bingbong entry under
\* every hooked event and the other entries as they were, and further runs
\* change nothing
InstallsOnce(install(_), hooks, events, isBingbong(_)) ==
  LET once == install(hooks)
  IN /\ \A e \in events :
          /\ e \in DOMAIN once
          /\ Len(SelectSeq(once[e], isBingbong)) = 1
     /\ \A e \in DOMAIN hooks \cup DOMAIN once :
          Others(once, e, isBingbong) = Others(hooks, e, isBingbong)
     /\ install(once) = once
     /\ install(install(once)) = once

\* C30: installing hooks is idempotent and preserves user hooks: on any
\* hooks file, a run of an installer leaves exactly one Bingbong entry per
\* hooked event and every other entry unchanged, and a second or third run
\* produces the same hooks as the first.
C30_InstallIdempotent ==
  /\ InstallsOnce(installCursor, cursorHooks, CURSOR_EVENTS, CursorBingbong)
  /\ InstallsOnce(installHooksSh, cursorHooks, CURSOR_EVENTS, CursorBingbong)
  /\ InstallsOnce(installClaude, claudeHooks, CLAUDE_EVENTS, ClaudeBingbong)

\* the marker elements attached to the field that the collection holds
Collected(e) == \E i \in 1..Len(sources) : sources[i].el = e

\* the timer at the head of the queue was set for an element other than
\* the one the collection now holds under the timer's key
StaleTimer ==
  /\ timers # <<>>
  /\ HasSource(sources, Head(timers).key)
  /\ GetSource(sources, Head(timers).key).el # Head(timers).el

\* C31: a marker is destroyed only by a removal notified during its own
\* lifetime: when the timer of an older removal of the key expires, it does
\* not delete the later marker of the key from the collection and does not
\* destroy that marker's voice, and no marker element is ever attached to
\* the field without being in the collection.
C31_OwnRemovalOnly ==
  /\ [](\A e \in DOMAIN els : Collected(e))
  /\ [][ (StaleTimer /\ timers' = Tail(timers) /\ elCount' = elCount)
           => /\ sources' = sources
              /\ sessionPanners' = sessionPanners ]_vars

\* C32: the client has at most one open or connecting connection at any
\* time and its connection handle refers to it, whatever the order of
\* clicks on the connect button and of the open, close and error callbacks
\* of the sockets; so each broadcast event is handled at most once.
C32_OneConnection ==
  /\ Cardinality(LiveSockets(sockets)) <= 1
  /\ \A s \in LiveSockets(sockets) : ws = s
  /\ deliveries <= 1

\* the marker pointer p was pressed on has been destroyed during the gesture
PressedDestroyed(p) == pressed[p] # 0 /\ pressed[p] \notin DOMAIN els

\* C33: a drag gesture only affects the marker that was pressed: once that
\* marker has been destroyed during the gesture, pointer moves change no
\* marker (position, element, voice) and the pointer-up writes nothing to
\* the Position Store, even when a new marker exists under the same key.
C33_DragOwnMarker ==
  [][ (\E p \in PointerIds : PressedDestroyed(p)) =>
        /\ \A i \in 1..Len(sources) :
             \A j \in 1..Len(sources') :
               sources'[j].el = sources[i].el =>
                 /\ sources'[j].pos = sources[i].pos
                 /\ els'[sources'[j].el].left = els[sources[i].el].left
                 /\ els'[sources'[j].el].top = els[sources[i].el].top
        /\ \A k \in DOMAIN sessionPanners \cap DOMAIN sessionPanners' :
             sessionPanners'[k] = sessionPanners[k]
        /\ positions' = positions
        /\ storage' = storage
    ]_vars

\* C34: a POST /events request answered with an error response (malformed
\* JSON, or JSON lacking required fields) leaves the server's session
\* registry and session counter unchanged and broadcasts nothing.
C34_ErrorChangesNothing ==
  [][ response' = "error" =>
        /\ registry' = registry
        /\ sessionCounter' = sessionCounter
        /\ broadcasts' = broadcasts ]_vars

\* the keys under which durable storage holds a well-formed position record
WellFormedKeys == {k \in DOMAIN storage : Conforms(storage[k])}

\* C35: whenever a Position Store exists (after construction and after
\* every save, get and resetAll), its cache holds exactly the well-formed
\* position records of durable storage under its namespace, one per key,
\* with equal x, y and savedAt.
C35_CacheMirrorsStorage ==
  loaded => positions = [k \in WellFormedKeys |-> Parse(storage[k])]

\* no fallback index is held by two of the given marker elements
Unshared(es) ==
  \A e1, e2 \in es : e1 # e2 => els[e1].index # els[e2].index

\* C36: fallback indices are consumed only when a marker is created and
\* are never shared by two coexisting markers: between resets the counter
\* increases by one per created marker (a duplicate create consumes none);
\* after reset layout the current markers hold 0..n-1 in first-seen order
\* and the next new marker receives n.
C36_IndicesUnshared ==
  /\ [] Unshared(DOMAIN els)
  /\ [][ \/ Reload
         \/ ResetLayout
         \/ /\ sessionIndex' - sessionIndex = elCount' - elCount
            /\ \A e \in DOMAIN els' \ DOMAIN els :
                 els'[e].index = sessionIndex + (e - elCount - 1) ]_vars
  /\ [][ (ResetLayout /\ UNCHANGED <<timers, elCount, connected>>) =>
           /\ \A i \in 1..Len(sources') :
                els'[sources'[i].el].index = i - 1
           /\ sessionIndex' = Len(sources') ]_vars

\* C37: after any burst of resize events a size recomputation runs after
\* the last event of the burst, so once resizing stops the cached width and
\* height of the drawing surface equal the final size of its container; at
\* most one recomputation timer is pending at any time.
C37_ResizeSettles ==
  /\ [](resizeTimers <= 1)
  /\ [](resizeTimeout <=> resizeTimers = 1)
  /\ [](size # rect => resizeTimeout)
  /\ [][ (size = rect /\ rect' = rect) => size' = rect' ]_vars
  /\ resizeTimeout ~> (~resizeTimeout /\ size = rect)
  /\ (size # rect) ~> (size = rect)

\* C37 witness: the canvas has been laid out at another size, the timer of
\* the burst has run and the cached size is the new one
C37_Witness ==
  /\ rect # InitialSize
  /\ size = rect
  /\ ~resizeTimeout
  /\ resizeTimers = 0

\* C38: the gains of the dry and the reverb bus are a function of the
\* current reverb mix alone: whenever the bus exists, the reverb gain is the
\* mix and the dry gain is what init() derives from the mix, whether the mix
\* was set before or after init().
C38_GainsFollowMix ==
  (reverbGain # NoGain /\ dryGain # NoGain) =>
    /\ reverbGain = reverbAmount
    /\ dryGain = Unit - reverbAmount
====
